---- MODULE Spec2Model ----
(***************************************************************************)
(* probestyx: the TTL-cached, single-flighted system collector             *)
(* (internal/metrics/system.go), its rate tracker, and the request handler *)
(* that merges the system snapshot with the scraper outputs                *)
(* (internal/handlers/handler.go, internal/parsers/parser.go).             *)
(*                                                                         *)
(* Time is a discrete clock `now` (one tick stands for one clock unit of   *)
(* time.Now()); it may advance between any two steps of any goroutine.     *)
(* Float values that went through utils.Round(x, 2) are kept as integers   *)
(* in hundredths.                                                          *)
(***************************************************************************)
EXTENDS Integers, Sequences, FiniteSets, TLC

\* ------------------------------------------------------------------ bounds
NumCallers == 2        \* goroutines calling CollectSystem concurrently
MaxTime    == 5        \* the clock runs from 1 to MaxTime
MaxScrapers == 2       \* scrapers of a configuration (cfg.Scrapers)
MaxPatterns == 2       \* patterns in an include or exclude list
MaxLines == 3          \* lines of a text handed to a parser
cacheTTL   == 2        \* cfg.System.CacheTTL, in clock ticks
WrapMod    == 8        \* stand-in for 2^64: width of the uint64 counters
MaxInt     == 7        \* stand-in for 2^63 - 1: the largest int64
Window     == 1        \* stand-in for the 300 seconds a timestamp may be off

Callers     == 1..NumCallers
Nil         == [nil |-> TRUE]

\* ------------------------------------------------- metric groups (Init)
\* The keys of each group, in the order the group's task sends them.
GroupKeys ==
  [ cpuUsage     |-> <<"cpu_usage_per_core", "cpu_usage_percent">>,
    cpuInfo      |-> <<"cpu_count", "cpu_count_physical", "cpu_load_1min",
                       "cpu_load_5min", "cpu_load_15min">>,
    memory       |-> <<"ram_usage_percent", "available_ram_mb", "total_ram_mb",
                       "ram_cached_mb", "ram_buffers_mb">>,
    swap         |-> <<"swap_usage_percent", "swap_total_mb", "swap_used_mb">>,
    diskUsage    |-> <<"disk_usage_percent", "available_disk_gb", "total_disk_gb",
                       "inode_usage_percent">>,
    diskIO       |-> <<"disk_read_bytes", "disk_write_bytes", "disk_read_count",
                       "disk_write_count", "disk_read_bytes_per_sec",
                       "disk_write_bytes_per_sec">>,
    network      |-> <<"network_bytes_sent", "network_bytes_recv",
                       "network_packets_sent", "network_packets_recv",
                       "network_errors_in", "network_errors_out",
                       "network_bytes_sent_per_sec", "network_bytes_recv_per_sec">>,
    netConn      |-> <<"active_connections">>,
    processCount |-> <<"process_count">>,
    hostInfo     |-> <<"system_uptime_seconds", "boot_time_unix", "os_platform",
                       "os_version", "hostname", "kernel_version">> ]

Groups == DOMAIN GroupKeys

Range(s) == { s[i] : i \in DOMAIN s }

AllKeys == UNION { Range(GroupKeys[g]) : g \in Groups }

\* The subsystem query a key is derived from. Every group issues one query,
\* except cpuInfo, whose task issues cpu.Counts(true), cpu.Counts(false) and
\* load.Avg() and guards the keys of each by that query's own error.
ProbeOf(key) ==
  CASE key = "cpu_count"          -> "cpu.Counts.logical"
    [] key = "cpu_count_physical" -> "cpu.Counts.physical"
    [] key \in {"cpu_load_1min", "cpu_load_5min", "cpu_load_15min"} -> "load.Avg"
    [] OTHER -> CHOOSE g \in Groups : key \in Range(GroupKeys[g])

RateKeys == { "disk_read_bytes_per_sec", "disk_write_bytes_per_sec",
              "network_bytes_sent_per_sec", "network_bytes_recv_per_sec" }

\* The prevMetrics field a *_per_sec key is computed against.
PrevField(key) ==
  CASE key = "disk_read_bytes_per_sec"     -> "diskReadBytes"
    [] key = "disk_write_bytes_per_sec"    -> "diskWriteBytes"
    [] key = "network_bytes_sent_per_sec"  -> "netBytesSent"
    [] key = "network_bytes_recv_per_sec"  -> "netBytesRecv"

\* The cumulative counter of the probe's reading a key reports or differentiates.
CounterField(key) ==
  CASE key \in {"disk_read_bytes", "disk_read_bytes_per_sec"}        -> "a"
    [] key \in {"disk_write_bytes", "disk_write_bytes_per_sec"}      -> "b"
    [] key \in {"network_bytes_sent", "network_bytes_sent_per_sec"}  -> "a"
    [] key \in {"network_bytes_recv", "network_bytes_recv_per_sec"}  -> "b"

CounterKeys == { "disk_read_bytes", "disk_write_bytes",
                 "network_bytes_sent", "network_bytes_recv" }

\* groups.<g>, as Init derives it from the requested metric names
GroupFlag(req, g) == \E k \in Range(GroupKeys[g]) : k \in req

\* ------------------------------------------------------ numeric helpers
\* uint64 subtraction: wraps around instead of going negative
Sub64(a, b) == (a - b) % WrapMod

\* utils.Round(float64(delta) / timeDelta, 2), in hundredths:
\* int(val*100 + 0.5) for the non-negative val the rate code passes
RatePerSec(delta, timeDelta) == (200 * delta + timeDelta) \div (2 * timeDelta)


\* ------------------------------------------------------------------ state
VARIABLES
  now,               \* time.Now(), in ticks
  requestedMetrics,  \* set of requested metric names (Init)
  cachedMetrics,     \* atomic.Value: Nil or the stored snapshot
  cacheTimestamp,    \* atomic.Int64: 0 or the capture time of the cache
  collectionMutex,   \* 0 when free, else the caller holding it
  prevMetrics,       \* previousMetrics: four counters and the timestamp
  prevBy,            \* history: which collection last wrote each prevMetrics part
  call,              \* per caller: position in CollectSystem and its locals; path is
                     \* how the last call returned, firstTime and firstNow keep what
                     \* lines 111 and 112 read
  col,               \* per caller: the frame of its doActualCollection
  hist,              \* history: capture time (nowNano) of each physical collection
  cfg,               \* the server, system and scraper configuration (handlers.Init)
  h                  \* per request: the frame of its MetricsHandler; where one
                     \* library function is called on its own, the frame of
                     \* that call

vars == << now, requestedMetrics, cachedMetrics, cacheTimestamp, collectionMutex,
           prevMetrics, prevBy, call, col, hist, cfg, h >>

EmptyMap == [k \in {} |-> 0]
NoCol    == [active |-> FALSE]

\* a process that serves no /metrics request: CollectSystem is called directly
NoScrapers == [secret |-> FALSE, enabled |-> TRUE, name |-> "", scrapers |-> << >>]
NoHandler  == [pc |-> "none"]

\* Request sets the configuration may name (cfg.System.Metrics).
\* "cpu" is a name no group knows (the metric name of an older release).
Configs ==
  { {"ram_usage_percent"},
    {"disk_read_bytes", "disk_read_bytes_per_sec", "process_count"},
    {"cpu_count", "cpu_load_1min", "cpu"},
    {"network_bytes_recv_per_sec"},
    {"cpu"} }

\* How many goroutines call CollectSystem concurrently under a request set:
\* every set is exercised by one caller, one polled gauge by two, and the
\* set that starts no group task by any number.
Scenario(req, n) ==
  \/ n = 1
  \/ n = 2 /\ req = {"ram_usage_percent"}
  \/ n > 2 /\ req = {"cpu"}

\* Cumulative counter pairs a diskIO or network query may report
\* (read/write bytes, sent/received bytes): a counter still at zero, a
\* growing one, and one that fell back after a reset.
CounterReadings == { <<0, 1>>, <<1, 2>>, <<3, 1>> }

\* metrics.Init
Init ==
  /\ now = 1
  /\ \E req \in Configs, n \in Callers :
       /\ requestedMetrics = req
       /\ Scenario(req, n)
       /\ call = [c \in Callers |->
                    [pc |-> IF c <= n THEN "idle" ELSE "off",
                     cachedTime |-> 0, nowNano |-> 0, ret |-> Nil,
                     path |-> "none", firstTime |-> 0, firstNow |-> 0]]
  /\ cachedMetrics = Nil
  /\ cacheTimestamp = 0
  /\ collectionMutex = 0
  /\ prevMetrics = [diskReadBytes |-> 0, diskWriteBytes |-> 0, netBytesSent |-> 0,
                    netBytesRecv |-> 0, timestamp |-> now]
  /\ prevBy = [diskIO |-> 0, network |-> 0, timestamp |-> 0]
  /\ col = [c \in Callers |-> NoCol]
  /\ hist = << >>
  /\ cfg = NoScrapers
  /\ h = [r \in Callers |-> NoHandler]

\* the clock advances
Tick ==
  /\ now < MaxTime
  /\ now' = now + 1
  /\ UNCHANGED << cfg, h, requestedMetrics, cachedMetrics, cacheTimestamp,
                  collectionMutex, prevMetrics, prevBy, call, col, hist >>

\* variant: the TTL comparison off by one (<= instead of <)
Fresh_Inclusive(cachedTime, nowNano) ==
  cachedTime > 0 /\ (nowNano - cachedTime) <= cacheTTL

Fresh(cachedTime, nowNano) == cachedTime > 0 /\ (nowNano - cachedTime) < cacheTTL

\* ---------------------------------------------------------- CollectSystem
\* entry and line 111: cachedTime := cacheTimestamp.Load()
Entered ==
  [pc |-> "fastNow", cachedTime |-> cacheTimestamp, nowNano |-> 0, ret |-> Nil,
   path |-> "none", firstTime |-> cacheTimestamp, firstNow |-> 0]

\* a goroutine other than a request handler calls CollectSystem
Enter(c) ==
  /\ call[c].pc = "idle"
  /\ h[c].pc = "none"
  /\ call' = [call EXCEPT ![c] = Entered]
  /\ UNCHANGED << cfg, h, now, requestedMetrics, cachedMetrics, cacheTimestamp,
                  collectionMutex, prevMetrics, prevBy, col, hist >>

\* lines 112-114: nowNano := time.Now(); the fast-path validity test
FastNow(c) ==
  /\ call[c].pc = "fastNow"
  /\ call' = [call EXCEPT ![c].nowNano = now, ![c].firstNow = now,
                          ![c].pc = IF Fresh(call[c].cachedTime, now)
                                    THEN "fastLoad" ELSE "lock"]
  /\ UNCHANGED << cfg, h, now, requestedMetrics, cachedMetrics, cacheTimestamp,
                  collectionMutex, prevMetrics, prevBy, col, hist >>

\* lines 115-117: cached := cachedMetrics.Load(); return it unless nil
FastLoad(c) ==
  /\ call[c].pc = "fastLoad"
  /\ call' = IF cachedMetrics # Nil
             THEN [call EXCEPT ![c].pc = "idle", ![c].ret = cachedMetrics,
                               ![c].path = "fast"]
             ELSE [call EXCEPT ![c].pc = "lock"]
  /\ UNCHANGED << cfg, h, now, requestedMetrics, cachedMetrics, cacheTimestamp,
                  collectionMutex, prevMetrics, prevBy, col, hist >>

\* variant: the lock is taken without waiting for its holder
Lock_NoWait(c) ==
  /\ call[c].pc = "lock"
  /\ collectionMutex' = c
  /\ call' = [call EXCEPT ![c].pc = "recheck"]
  /\ UNCHANGED << cfg, h, now, requestedMetrics, cachedMetrics, cacheTimestamp,
                  prevMetrics, prevBy, col, hist >>

\* line 121: collectionMutex.Lock()
Lock(c) ==
  /\ call[c].pc = "lock"
  /\ collectionMutex = 0
  /\ collectionMutex' = c
  /\ call' = [call EXCEPT ![c].pc = "recheck"]
  /\ UNCHANGED << cfg, h, now, requestedMetrics, cachedMetrics, cacheTimestamp,
                  prevMetrics, prevBy, col, hist >>

\* variant: no double-check after the lock is acquired
Recheck_Skipped(c) ==
  /\ call[c].pc = "recheck"
  /\ call' = [call EXCEPT ![c].cachedTime = cacheTimestamp, ![c].nowNano = now,
                          ![c].pc = "collect"]
  /\ UNCHANGED << cfg, h, now, requestedMetrics, cachedMetrics, cacheTimestamp,
                  collectionMutex, prevMetrics, prevBy, col, hist >>

\* lines 125-127: cachedTime = cacheTimestamp.Load(); nowNano = time.Now();
\* the validity test under the lock
Recheck(c) ==
  /\ call[c].pc = "recheck"
  /\ call' = [call EXCEPT ![c].cachedTime = cacheTimestamp, ![c].nowNano = now,
                          ![c].pc = IF Fresh(cacheTimestamp, now)
                                    THEN "reCached" ELSE "collect"]
  /\ UNCHANGED << cfg, h, now, requestedMetrics, cachedMetrics, cacheTimestamp,
                  collectionMutex, prevMetrics, prevBy, col, hist >>

\* variant: a cache hit under the lock advances the rate tracker's timestamp
ReCached_Touch(c) ==
  /\ call[c].pc = "reCached"
  /\ cachedMetrics # Nil
  /\ call' = [call EXCEPT ![c].pc = "idle", ![c].ret = cachedMetrics,
                          ![c].path = "recheck"]
  /\ collectionMutex' = 0
  /\ prevMetrics' = [prevMetrics EXCEPT !.timestamp = call[c].nowNano]
  /\ UNCHANGED << cfg, h, now, requestedMetrics, cachedMetrics, cacheTimestamp,
                  prevBy, col, hist >>

\* lines 128-130 with the deferred Unlock of line 122
ReCached(c) ==
  /\ call[c].pc = "reCached"
  /\ IF cachedMetrics # Nil
     THEN /\ call' = [call EXCEPT ![c].pc = "idle", ![c].ret = cachedMetrics,
                                  ![c].path = "recheck"]
          /\ collectionMutex' = 0
     ELSE /\ call' = [call EXCEPT ![c].pc = "collect"]
           /\ UNCHANGED collectionMutex
  /\ UNCHANGED << cfg, h, now, requestedMetrics, cachedMetrics, cacheTimestamp,
                  prevMetrics, prevBy, col, hist >>

\* ------------------------------------------------------ doActualCollection
\* capacity of resultChan: len(cfg.System.Metrics)
Capacity == Cardinality(requestedMetrics)

\* variant: the "has a prior sample" test (prev > 0) is missing
KeyEmitted_NoSentinel(key, req, ok, prev, timeDelta) ==
  /\ key \in req
  /\ ok[ProbeOf(key)]
  /\ key \in RateKeys => timeDelta > 0

\* variant: every key of a successful query is sent, requested or not
KeyEmitted_Siblings(key, req, ok, prev, timeDelta) ==
  /\ ProbeOf(key) \in DOMAIN ok
  /\ ok[ProbeOf(key)]
  /\ key \in RateKeys => (prev[PrevField(key)] > 0 /\ timeDelta > 0)

\* The guard in front of send(key, ...): the key is requested, its query
\* returned no error, and for a *_per_sec key the previous counter is known
\* and time has passed.
KeyEmitted(key, req, ok, prev, timeDelta) ==
  /\ key \in req
  /\ ok[ProbeOf(key)]
  /\ key \in RateKeys => (prev[PrevField(key)] > 0 /\ timeDelta > 0)

\* The value sent for a key: the raw counter, the rounded rate, or the
\* value derived from the query's reading.
KeyValue(key, rd, prev, timeDelta) ==
  IF key \in RateKeys
  THEN RatePerSec(Sub64(rd[CounterField(key)], prev[PrevField(key)]), timeDelta)
  ELSE IF key \in CounterKeys THEN rd[CounterField(key)] ELSE rd.g

\* variant: a task returns at the first query that fails
TaskSends_ReturnOnErr(g, req, ok, rd, prev, timeDelta) ==
  IF \E p \in DOMAIN ok : ~ ok[p]
  THEN << >>
  ELSE LET ks == SelectSeq(GroupKeys[g],
                           LAMBDA k : KeyEmitted(k, req, ok, prev, timeDelta))
       IN  [i \in 1..Len(ks) |-> << ks[i], KeyValue(ks[i], rd, prev, timeDelta) >>]

\* The sends one group task performs, in program order.
TaskSends(g, req, ok, rd, prev, timeDelta) ==
  LET ks == SelectSeq(GroupKeys[g],
                      LAMBDA k : KeyEmitted(k, req, ok, prev, timeDelta))
  IN  [i \in 1..Len(ks) |-> << ks[i], KeyValue(ks[i], rd, prev, timeDelta) >>]

NoTask == [st |-> "off", ok |-> EmptyMap, rd |-> [a |-> 0, b |-> 0, g |-> 0],
           out |-> << >>]

\* Readings a group's queries may return in collection number gen:
\* cumulative counters for diskIO and network; the other values are named
\* by the collection that read them.
Readings(g, gen) ==
  IF g \in {"diskIO", "network"}
  THEN { [a |-> p[1], b |-> p[2], g |-> gen] : p \in CounterReadings }
  ELSE { [a |-> 0, b |-> 0, g |-> gen] }

\* The queries a group task issues: those a requested key is derived from.
IssuedProbes(g, req) == { ProbeOf(k) : k \in Range(GroupKeys[g]) \cap req }

\* line 134 and lines 143-168, and the go statements of lines 170-446:
\* read prevMetrics, make the channel, start one task per set group flag
BeginCollection(c) ==
  /\ call[c].pc = "collect"
  /\ hist' = Append(hist, call[c].nowNano)
  /\ col' = [col EXCEPT ![c] =
       [active        |-> TRUE,
        gen           |-> Len(hist) + 1,
        prevTimestamp |-> prevMetrics.timestamp,
        timeDelta     |-> call[c].nowNano - prevMetrics.timestamp,
        prev          |-> prevMetrics,
        prevBy        |-> prevBy,
        metrics       |-> EmptyMap,
        resultChan    |-> << >>,
        closed        |-> FALSE,
        wg            |-> Cardinality({ g \in Groups : GroupFlag(requestedMetrics, g) }),
        task          |-> [g \in Groups |->
                             IF GroupFlag(requestedMetrics, g)
                             THEN [NoTask EXCEPT !.st = "run"] ELSE NoTask]]]
  /\ call' = [call EXCEPT ![c].pc = "drain"]
  /\ UNCHANGED << cfg, h, now, requestedMetrics, cachedMetrics, cacheTimestamp,
                  collectionMutex, prevMetrics, prevBy >>

\* a group task issues its subsystem queries; each may fail
Probe(c, g) ==
  /\ col[c].active
  /\ col[c].task[g].st = "run"
  /\ \E ok \in [IssuedProbes(g, requestedMetrics) -> BOOLEAN],
        rd \in Readings(g, col[c].gen) :
       col' = [col EXCEPT ![c].task[g] =
                 [st |-> "send", ok |-> ok, rd |-> rd,
                  out |-> TaskSends(g, requestedMetrics, ok, rd,
                                    col[c].prev, col[c].timeDelta)]]
  /\ UNCHANGED << cfg, h, now, requestedMetrics, cachedMetrics, cacheTimestamp,
                  collectionMutex, prevMetrics, prevBy, call, hist >>

\* lines 166-168: resultChan <- result{key, value}; blocks while the buffer is full
Send(c, g) ==
  /\ col[c].active
  /\ col[c].task[g].st = "send"
  /\ col[c].task[g].out # << >>
  /\ Len(col[c].resultChan) < Capacity
  /\ ~ col[c].closed
  /\ col' = [col EXCEPT ![c].resultChan = Append(@, Head(col[c].task[g].out)),
                        ![c].task[g].out = Tail(@)]
  /\ UNCHANGED << cfg, h, now, requestedMetrics, cachedMetrics, cacheTimestamp,
                  collectionMutex, prevMetrics, prevBy, call, hist >>

\* variant: a group task ends without wg.Done()
TaskExit_NoDone(c, g) ==
  /\ col[c].active
  /\ col[c].task[g].st = "send"
  /\ col[c].task[g].out = << >>
  /\ col' = [col EXCEPT ![c].task[g].st = "exit"]
  /\ IF g = "diskIO" /\ col[c].task[g].ok["diskIO"]
     THEN /\ prevMetrics' = [prevMetrics EXCEPT
                               !.diskReadBytes = col[c].task[g].rd.a,
                               !.diskWriteBytes = col[c].task[g].rd.b]
          /\ prevBy' = [prevBy EXCEPT !.diskIO = col[c].gen]
     ELSE IF g = "network" /\ col[c].task[g].ok["network"]
     THEN /\ prevMetrics' = [prevMetrics EXCEPT
                               !.netBytesSent = col[c].task[g].rd.a,
                               !.netBytesRecv = col[c].task[g].rd.b]
          /\ prevBy' = [prevBy EXCEPT !.network = col[c].gen]
     ELSE UNCHANGED << prevMetrics, prevBy >>
  /\ UNCHANGED << cfg, h, now, requestedMetrics, cachedMetrics, cacheTimestamp,
                  collectionMutex, call, hist >>

\* The end of a group task: the diskIO and network tasks store the counters
\* they read (lines 348-349, 391-392) when their query succeeded; then the
\* deferred wg.Done().
TaskExit(c, g) ==
  /\ col[c].active
  /\ col[c].task[g].st = "send"
  /\ col[c].task[g].out = << >>
  /\ col' = [col EXCEPT ![c].task[g].st = "exit", ![c].wg = @ - 1]
  /\ IF g = "diskIO" /\ col[c].task[g].ok["diskIO"]
     THEN /\ prevMetrics' = [prevMetrics EXCEPT
                               !.diskReadBytes = col[c].task[g].rd.a,
                               !.diskWriteBytes = col[c].task[g].rd.b]
          /\ prevBy' = [prevBy EXCEPT !.diskIO = col[c].gen]
     ELSE IF g = "network" /\ col[c].task[g].ok["network"]
     THEN /\ prevMetrics' = [prevMetrics EXCEPT
                               !.netBytesSent = col[c].task[g].rd.a,
                               !.netBytesRecv = col[c].task[g].rd.b]
          /\ prevBy' = [prevBy EXCEPT !.network = col[c].gen]
     ELSE UNCHANGED << prevMetrics, prevBy >>
  /\ UNCHANGED << cfg, h, now, requestedMetrics, cachedMetrics, cacheTimestamp,
                  collectionMutex, call, hist >>

\* variant: the channel is closed without waiting for the tasks
CloseChan_NoWait(c) ==
  /\ col[c].active
  /\ ~ col[c].closed
  /\ col' = [col EXCEPT ![c].closed = TRUE]
  /\ UNCHANGED << cfg, h, now, requestedMetrics, cachedMetrics, cacheTimestamp,
                  collectionMutex, prevMetrics, prevBy, call, hist >>

\* lines 449-452: wg.Wait(); close(resultChan)
CloseChan(c) ==
  /\ col[c].active
  /\ col[c].wg = 0
  /\ ~ col[c].closed
  /\ col' = [col EXCEPT ![c].closed = TRUE]
  /\ UNCHANGED << cfg, h, now, requestedMetrics, cachedMetrics, cacheTimestamp,
                  collectionMutex, prevMetrics, prevBy, call, hist >>

MapPut(m, k, v) == [x \in (DOMAIN m) \cup {k} |-> IF x = k THEN v ELSE m[x]]

\* lines 455-457: one iteration of `for r := range resultChan`
Recv(c) ==
  /\ call[c].pc = "drain"
  /\ col[c].resultChan # << >>
  /\ LET r == Head(col[c].resultChan)
     IN  col' = [col EXCEPT ![c].resultChan = Tail(@),
                            ![c].metrics = MapPut(@, r[1], r[2])]
  /\ UNCHANGED << cfg, h, now, requestedMetrics, cachedMetrics, cacheTimestamp,
                  collectionMutex, prevMetrics, prevBy, call, hist >>

\* the range loop ends on the closed, drained channel; lines 459-462
EndDrain(c) ==
  /\ call[c].pc = "drain"
  /\ col[c].closed
  /\ col[c].resultChan = << >>
  /\ prevMetrics' = [prevMetrics EXCEPT !.timestamp = call[c].nowNano]
  /\ prevBy' = [prevBy EXCEPT !.timestamp = col[c].gen]
  /\ call' = [call EXCEPT ![c].pc = "storeMetrics"]
  /\ UNCHANGED << cfg, h, now, requestedMetrics, cachedMetrics, cacheTimestamp,
                  collectionMutex, col, hist >>

\* the snapshot a collection returns: the map object of that collection
Snapshot(c) == [gen |-> col[c].gen, m |-> col[c].metrics]

\* line 137: cachedMetrics.Store(metrics)
StoreMetrics(c) ==
  /\ call[c].pc = "storeMetrics"
  /\ cachedMetrics' = Snapshot(c)
  /\ call' = [call EXCEPT ![c].pc = "storeTimestamp"]
  /\ UNCHANGED << cfg, h, now, requestedMetrics, cacheTimestamp, collectionMutex,
                  prevMetrics, prevBy, col, hist >>

\* a snapshot that lacks a requested key because the key's query failed
PartialSnapshot(snap) ==
  \E key \in (requestedMetrics \cap AllKeys) \ RateKeys : key \notin DOMAIN snap.m

\* variant: the capture time of a snapshot with failed queries is not
\* stored, so that the next call collects again
StoreTimestamp_RetryPartial(c) ==
  /\ call[c].pc = "storeTimestamp"
  /\ cacheTimestamp' = IF PartialSnapshot(Snapshot(c)) THEN cacheTimestamp
                       ELSE call[c].nowNano
  /\ call' = [call EXCEPT ![c].pc = "idle", ![c].ret = Snapshot(c),
                          ![c].path = "collect"]
  /\ col' = [col EXCEPT ![c] = NoCol]
  /\ collectionMutex' = 0
  /\ UNCHANGED << cfg, h, now, requestedMetrics, cachedMetrics, prevMetrics, prevBy, hist >>

\* lines 138-140 with the deferred Unlock of line 122
StoreTimestamp(c) ==
  /\ call[c].pc = "storeTimestamp"
  /\ cacheTimestamp' = call[c].nowNano
  /\ call' = [call EXCEPT ![c].pc = "idle", ![c].ret = Snapshot(c),
                          ![c].path = "collect"]
  /\ col' = [col EXCEPT ![c] = NoCol]
  /\ collectionMutex' = 0
  /\ UNCHANGED << cfg, h, now, requestedMetrics, cachedMetrics, prevMetrics, prevBy, hist >>

Next ==
  \/ Tick
  \/ \E c \in Callers :
       \/ Enter(c) \/ FastNow(c) \/ FastLoad(c) \/ Lock(c) \/ Recheck(c)
       \/ ReCached(c) \/ BeginCollection(c) \/ CloseChan(c)
       \/ Recv(c) \/ EndDrain(c) \/ StoreMetrics(c) \/ StoreTimestamp(c)
       \/ \E g \in Groups : Probe(c, g) \/ Send(c, g) \/ TaskExit(c, g)

Spec == Init /\ [][Next]_vars

\* ============================================================== scrapers
\* Values of a parsed document: a number n/d (d = 1 unless a division left
\* a fraction, d = 0 for a division by zero), a string, or a nested mapping.
NumV(n)    == [t |-> "num", n |-> n, d |-> 1, s |-> "", m |-> << >>]
QuotV(n, d) == [t |-> "num", n |-> n, d |-> d, s |-> "", m |-> << >>]
StrV(s)    == [t |-> "str", n |-> 0, d |-> 1, s |-> s, m |-> << >>]
MapV(m)    == [t |-> "map", n |-> 0, d |-> 1, s |-> "", m |-> m]
\* a JSON boolean, list or null: t is "bool", "list" or "null"
OtherV(t)  == [t |-> t, n |-> 0, d |-> 1, s |-> "", m |-> << >>]

\* strconv.ParseFloat on the numerals that occur in the documents
NumericText == ("2" :> 2) @@ ("4" :> 4) @@ ("6" :> 6) @@ ("7" :> 7)
ParseFloat(s) ==
  IF s \in DOMAIN NumericText THEN [ok |-> TRUE, f |-> NumericText[s]]
                              ELSE [ok |-> FALSE, f |-> 0]

\* A text is a sequence of lines; a line is the sequence of its
\* whitespace-separated tokens (strings.Fields), empty for a blank line; a
\* token is a sequence of pieces, each a run of word characters (letters,
\* digits, underscore) or one other character.
W(s) == [w |-> TRUE, s |-> s]
Y(s) == [w |-> FALSE, s |-> s]
Quoted(s) == << Y("\""), W(s), Y("\"") >>
RECURSIVE Joined(_)
Joined(pieces) ==
  IF pieces = << >> THEN "" ELSE Head(pieces).s \o Joined(Tail(pieces))

\* The text of a source, with its syntax; for a JSON object also its
\* members as json.Unmarshal decodes them. Text that is neither JSON, a
\* Prometheus exposition nor key=value pairs has the syntax "junk".
DocJSON ==
  [syntax |-> "json",
   lines  |-> << <<"stats", MapV([cpu |-> NumV(3), note |-> StrV("7"), on |-> OtherV("bool"),
                                  list |-> OtherV("list"), none |-> OtherV("null")])>>,
                 <<"mode", StrV("up")>> >>,
   text   |-> << << << Y("{") >> \o Quoted("stats") \o << Y(":"), Y("{") >>
                    \o Quoted("cpu") \o << Y(":"), W("3"), Y(",") >>
                    \o Quoted("note") \o << Y(":") >> \o Quoted("7") \o << Y(",") >>
                    \o Quoted("on") \o << Y(":"), W("true"), Y(",") >>
                    \o Quoted("list") \o << Y(":"), Y("["), Y("]"), Y(",") >>
                    \o Quoted("none") \o << Y(":"), W("null"), Y("}"), Y(",") >>
                    \o Quoted("mode") \o << Y(":") >> \o Quoted("up") \o << Y("}") >> >> >>]
DocProm ==
  [syntax |-> "prom",
   lines  |-> << >>,
   text   |-> << << <<Y("#")>>, <<W("HELP")>>, <<W("mem")>> >>,
                 << <<W("mem")>>, <<W("4")>> >>,
                 << >>,
                 << <<W("state")>>, <<W("up")>> >>,
                 << <<W("mem"), Y("{"), W("a"), Y("=")>> \o Quoted("1") \o <<Y("}")>>,
                    <<W("6")>> >>,
                 << <<W("lonely")>> >> >>]
DocKV ==
  [syntax |-> "kv",
   lines  |-> << >>,
   text   |-> << << <<W("cpu"), Y("="), W("2")>>, <<W("host"), Y("="), W("a")>> >> >>]
DocJunk ==
  [syntax |-> "junk",
   lines  |-> << >>,
   text   |-> << << <<Y("<"), W("html"), Y(">")>> >> >>]
Docs == { DocJSON, DocProm, DocKV, DocJunk }

\* fetchURL / os.ReadFile: an error, or the text read
FetchResults ==
  { [err |-> TRUE, doc |-> DocJunk] } \cup { [err |-> FALSE, doc |-> d] : d \in Docs }
NoFetch == [err |-> FALSE, doc |-> DocJunk]

\* variant: an entry whose key is already stored is dropped
RECURSIVE Stored_FirstWins(_)
Stored_FirstWins(lines) ==
  IF lines = << >> THEN << >>
  ELSE LET n    == Len(lines)
           rest == Stored_FirstWins(SubSeq(lines, 1, n - 1))
       IN  rest @@ (lines[n][1] :> lines[n][2])

\* the mapping a sequence of entries leaves when each is stored in turn
RECURSIVE Stored(_)
Stored(lines) ==
  IF lines = << >> THEN << >>
  ELSE LET n    == Len(lines)
           rest == Stored(SubSeq(lines, 1, n - 1))
       IN  (lines[n][1] :> lines[n][2]) @@ rest

ParseOk(m) == [err |-> FALSE, m |-> m]
ParseErr   == [err |-> TRUE, m |-> Nil]

\* json.Unmarshal into a map: an error unless the text is a JSON object
ParseJSON(doc) ==
  IF doc.syntax = "json" THEN ParseOk(Stored(doc.lines)) ELSE ParseErr

\* the pieces of a token in front of its first "{"
RECURSIVE BeforeBrace(_)
BeforeBrace(tok) ==
  IF tok = << >> \/ Head(tok) = Y("{") THEN << >>
  ELSE << Head(tok) >> \o BeforeBrace(Tail(tok))

\* variant: the labels stay in the name
PromLine_KeepLabels(line) ==
  IF line = << >> \/ Head(Head(line)) = Y("#") \/ Len(line) < 2 THEN << >>
  ELSE LET val == ParseFloat(Joined(line[2])) IN
       IF val.ok THEN << << Joined(line[1]), NumV(val.f) >> >>
       ELSE << >>

\* what one line stores (lines 22-42): nothing for a blank line, a line
\* starting with "#", a line of one token, or a second token that is no
\* number; otherwise the first token up to its first "{" and the number
PromLine(line) ==
  IF line = << >> \/ Head(Head(line)) = Y("#") \/ Len(line) < 2 THEN << >>
  ELSE LET val == ParseFloat(Joined(line[2])) IN
       IF val.ok THEN << << Joined(BeforeBrace(line[1])), NumV(val.f) >> >>
       ELSE << >>

RECURSIVE PromEntries(_)
PromEntries(text) ==
  IF text = << >> THEN << >>
  ELSE PromLine(Head(text)) \o PromEntries(Tail(text))

\* variant: text that is no Prometheus exposition is an error
ParsePrometheus_Strict(doc) ==
  IF doc.syntax = "prom" THEN ParseOk(Stored(PromEntries(doc.text))) ELSE ParseErr

\* never an error; the entries of the lines are stored in textual order
ParsePrometheus(doc) == ParseOk(Stored(PromEntries(doc.text)))

\* the pattern ParseRaw uses for an empty pattern, one without capture
\* groups, and one that does not compile
DefaultPattern == "(\\w+)=(\\S+)"
NoGroups       == "\\w+=\\S+"
\* regexp.Compile
Compiles(pattern) == pattern # "("

\* the leftmost match of \w+=\S+ in a token, as the list of the match and
\* its capture groups: a word run, "=", and the rest of the token, which
\* must not be empty
TokenMatch(tok, pattern) ==
  LET at == { i \in DOMAIN tok : tok[i].w /\ i + 2 <= Len(tok) /\ tok[i + 1] = Y("=") }
  IN  IF at = {} \/ pattern \notin { DefaultPattern, NoGroups } THEN << >>
      ELSE LET i     == CHOOSE j \in at : \A k \in at : j <= k
               key   == tok[i].s
               value == Joined(SubSeq(tok, i + 2, Len(tok)))
               whole == key \o "=" \o value
           IN  IF pattern = DefaultPattern THEN << << whole, key, value >> >>
               ELSE << << whole >> >>

\* re.FindAllStringSubmatch(data, -1): no match spans whitespace
RECURSIVE LineMatches(_, _)
LineMatches(line, pattern) ==
  IF line = << >> THEN << >>
  ELSE TokenMatch(Head(line), pattern) \o LineMatches(Tail(line), pattern)
RECURSIVE FindAllStringSubmatch(_, _)
FindAllStringSubmatch(text, pattern) ==
  IF text = << >> THEN << >>
  ELSE LineMatches(Head(text), pattern) \o FindAllStringSubmatch(Tail(text), pattern)

\* variant: the value is stored as the text it was written as
RawEntry_KeepText(match) ==
  IF Len(match) >= 3 THEN << << match[2], StrV(match[3]) >> >> ELSE << >>

\* what one match stores (lines 64-73)
RawEntry(match) ==
  IF Len(match) >= 3
  THEN LET numVal == ParseFloat(match[3]) IN
       << << match[2], IF numVal.ok THEN NumV(numVal.f) ELSE StrV(match[3]) >> >>
  ELSE << >>

RECURSIVE RawEntries(_)
RawEntries(matches) ==
  IF matches = << >> THEN << >>
  ELSE RawEntry(Head(matches)) \o RawEntries(Tail(matches))

\* an error when the pattern does not compile; every match is stored, as a
\* number when the value parses as one and as the string otherwise
ParseRaw(doc, pattern) ==
  LET p == IF pattern = "" THEN DefaultPattern ELSE pattern IN
  IF ~ Compiles(p) THEN ParseErr
  ELSE ParseOk(Stored(RawEntries(FindAllStringSubmatch(doc.text, p))))

\* regexp.MatchString(pattern, key) on the keys of the documents; a pattern
\* that does not compile matches nothing (the error is dropped)
PatternKeys ==
  ("^mem" :> {"mem"}) @@ ("st" :> {"stats", "state", "host"})
  @@ (".*" :> {"stats", "mode", "mem", "state", "cpu", "host", "a"})
Matched(pattern, key) ==
  /\ Compiles(pattern)
  /\ pattern \in DOMAIN PatternKeys
  /\ key \in PatternKeys[pattern]

\* variant: a key an include pattern matches is kept whatever exclude says
ApplyFilters_IncludeWins(data, filter) ==
  LET matched(key) == \E i \in DOMAIN filter.include : Matched(filter.include[i], key)
      include(key) == Len(filter.include) = 0 \/ matched(key)
      exclude(key) == \E i \in DOMAIN filter.exclude : Matched(filter.exclude[i], key)
      kept == { key \in DOMAIN data : include(key) /\ (matched(key) \/ ~ exclude(key)) }
  IN  [key \in kept |-> data[key]]

\* variant: the exclude list removes only the first key it matches
ApplyFilters_ExcludeOnce(data, filter) ==
  LET include(key) == \/ Len(filter.include) = 0
                      \/ \E i \in DOMAIN filter.include : Matched(filter.include[i], key)
      exclude(key) == \E i \in DOMAIN filter.exclude : Matched(filter.exclude[i], key)
      hit   == { key \in DOMAIN data : include(key) /\ exclude(key) }
      first == IF hit = {} THEN {} ELSE { CHOOSE key \in hit : TRUE }
      kept  == { key \in DOMAIN data : include(key) } \ first
  IN  [key \in kept |-> data[key]]

ApplyFilters(data, filter) ==
  LET include(key) == \/ Len(filter.include) = 0
                      \/ \E i \in DOMAIN filter.include : Matched(filter.include[i], key)
      exclude(key) == \E i \in DOMAIN filter.exclude : Matched(filter.exclude[i], key)
      kept == { key \in DOMAIN data : include(key) /\ ~ exclude(key) }
  IN  [key \in kept |-> data[key]]

NotFound == [found |-> FALSE, value |-> StrV("")]
Found(v) == [found |-> TRUE, value |-> v]

\* utils.GetJSONPath; parts is strings.Split(path, ".")
RECURSIVE Walk(_, _)
Walk(current, parts) ==
  IF parts = << >> THEN Found(current)
  ELSE IF current.t = "map" /\ Head(parts) \in DOMAIN current.m
       THEN Walk(current.m[Head(parts)], Tail(parts))
       ELSE NotFound
GetJSONPath(data, parts) == Walk(MapV(data), parts)

\* variant: a string is never taken for a number
ToFloat64_NoStrings(v) ==
  IF v.t = "num" THEN [ok |-> TRUE, f |-> v.n] ELSE [ok |-> FALSE, f |-> 0]

\* utils.ToFloat64
ToFloat64(v) ==
  CASE v.t = "num" -> [ok |-> TRUE, f |-> v.n]
    [] v.t = "str" -> ParseFloat(v.s)
    [] OTHER       -> [ok |-> FALSE, f |-> 0]

\* An expression is a sequence of tokens: the word value, an operator
\* character, a numeral, or any other word.
TValue    == [k |-> "value", c |-> "", n |-> 0]
TOp(c)    == [k |-> "op", c |-> c, n |-> 0]
TNum(n)   == [k |-> "num", c |-> "", n |-> n]
TWord     == [k |-> "word", c |-> "", n |-> 0]

\* the characters of one token once value is replaced by the formatted
\* number: a negative numeral is a "-" character in front of its digits
Chars(tok, value) ==
  LET n == IF tok.k = "value" THEN value ELSE tok.n IN
  CASE tok.k = "op"   -> << [k |-> "op", c |-> tok.c, n |-> 0] >>
    [] tok.k = "word" -> << TWord >>
    [] OTHER -> IF n < 0 THEN << [k |-> "sign", c |-> "-", n |-> 0], TNum(-n) >>
                         ELSE << TNum(n) >>

\* variant: the word value is left in the text
RECURSIVE Substituted_Literal(_, _)
Substituted_Literal(expr, value) ==
  IF expr = << >> THEN << >>
  ELSE (IF Head(expr).k = "value" THEN << TWord >> ELSE Chars(Head(expr), value))
         \o Substituted_Literal(Tail(expr), value)

RECURSIVE Substituted(_, _)
Substituted(expr, value) ==
  IF expr = << >> THEN << >>
  ELSE Chars(Head(expr), value) \o Substituted(Tail(expr), value)

\* variant: a signed numeral is not accepted
ParsePart_Unsigned(part) ==
  CASE Len(part) = 1 /\ part[1].k = "num" -> [ok |-> TRUE, f |-> part[1].n]
    [] OTHER -> [ok |-> FALSE, f |-> 0]

\* strconv.ParseFloat(strings.TrimSpace(part)): digits, or a sign directly
\* in front of digits
ParsePart(part) ==
  CASE Len(part) = 1 /\ part[1].k = "num" -> [ok |-> TRUE, f |-> part[1].n]
    [] Len(part) = 2 /\ part[1].k = "sign" /\ part[2].k = "num"
         -> [ok |-> TRUE, f |-> 0 - part[2].n]
    [] OTHER -> [ok |-> FALSE, f |-> 0]

Quot(v, c) ==
  IF c = 0 THEN QuotV(v, 0)
  ELSE LET a == IF c < 0 THEN 0 - v ELSE v
           b == IF c < 0 THEN 0 - c ELSE c
       IN  IF a % b = 0 THEN NumV(a \div b) ELSE QuotV(a, b)

Arith(c, v, x) ==
  CASE c = "*" -> NumV(v * x)
    [] c = "/" -> Quot(v, x)
    [] c = "+" -> NumV(v + x)
    [] c = "-" -> NumV(v - x)

\* utils.Calculate: the first of * / + - that occurs in the text decides;
\* the text is split at that character, and the operation is applied when
\* there are exactly two parts and the second parses as a number
Calculate(value, expr) ==
  LET text   == Substituted(expr, value)
      at(c)  == { i \in DOMAIN text : text[i].c = c }
      has(c) == at(c) # {}
      op     == CASE has("*") -> "*" [] has("/") -> "/" [] has("+") -> "+"
                  [] has("-") -> "-" [] OTHER -> ""
  IN  IF op = "" \/ Cardinality(at(op)) # 1 THEN NumV(value)
      ELSE LET i == CHOOSE j \in at(op) : TRUE
               p == ParsePart(SubSeq(text, i + 1, Len(text)))
           IN  IF p.ok THEN Arith(op, value, p.f) ELSE NumV(value)

\* one entry of scraper.Metrics against the parsed mapping (lines 168-190):
\* the entry it adds to the result, if it resolves
Resolve(parsed, mm) ==
  IF mm.path # << >> THEN GetJSONPath(parsed, mm.path)
  ELSE IF mm.match # "" /\ mm.match \in DOMAIN parsed THEN Found(parsed[mm.match])
  ELSE NotFound

Transformed(value, mm) ==
  IF mm.calculate # << >> /\ ToFloat64(value).ok
  THEN Calculate(ToFloat64(value).f, mm.calculate)
  ELSE value

RECURSIVE MapMetrics(_, _)
MapMetrics(parsed, mms) ==
  IF mms = << >> THEN << >>
  ELSE LET n    == Len(mms)
           rest == MapMetrics(parsed, SubSeq(mms, 1, n - 1))
           r    == Resolve(parsed, mms[n])
       IN  IF r.found THEN (mms[n].name :> Transformed(r.value, mms[n])) @@ rest
           ELSE rest

ScraperErr(e) == [err |-> e, metrics |-> Nil]

\* variant: the filter is applied to the mapped output, not to the parsed keys
CollectScraper_MapThenFilter(s, src) ==
  IF s.type \notin {"url", "file"} THEN ScraperErr("unknown source type")
  ELSE IF src.err THEN ScraperErr("fetch")
  ELSE IF s.format \notin {"json", "prometheus", "raw"} THEN ScraperErr("unknown format")
  ELSE LET p == CASE s.format = "json"       -> ParseJSON(src.doc)
                  [] s.format = "prometheus" -> ParsePrometheus(src.doc)
                  [] s.format = "raw"        -> ParseRaw(src.doc, s.pattern)
       IN  IF p.err THEN ScraperErr("parse")
           ELSE LET mapped == MapMetrics(p.m, s.metrics)
                IN  [err |-> "",
                     metrics |-> IF s.hasFilter THEN ApplyFilters(mapped, s.filter)
                                 ELSE mapped]

\* metrics.CollectScraper, given what the fetch returns
CollectScraper(s, src) ==
  IF s.type \notin {"url", "file"} THEN ScraperErr("unknown source type")
  ELSE IF src.err THEN ScraperErr("fetch")
  ELSE IF s.format \notin {"json", "prometheus", "raw"} THEN ScraperErr("unknown format")
  ELSE LET p == CASE s.format = "json"       -> ParseJSON(src.doc)
                  [] s.format = "prometheus" -> ParsePrometheus(src.doc)
                  [] s.format = "raw"        -> ParseRaw(src.doc, s.pattern)
       IN  IF p.err THEN ScraperErr("parse")
           ELSE LET parsed == IF s.hasFilter THEN ApplyFilters(p.m, s.filter) ELSE p.m
                IN  [err |-> "", metrics |-> MapMetrics(parsed, s.metrics)]

\* what the fetch of a scraper may return; no fetch for an unknown type
Sources(s) == IF s.type \in {"url", "file"} THEN FetchResults ELSE { NoFetch }

\* ------------------------------------------------------- configurations
NoFilter == [include |-> << >>, exclude |-> << >>]
MetricMap(path, match, name, calculate) ==
  [path |-> path, match |-> match, name |-> name, calculate |-> calculate]
Scraper(name, type, format, pattern, hasFilter, filter, metrics) ==
  [name |-> name, type |-> type, format |-> format, pattern |-> pattern,
   hasFilter |-> hasFilter, filter |-> filter, metrics |-> metrics]

\* a JSON source read over HTTP, with a path lookup and a transformation
ScrApp ==
  Scraper("app", "url", "json", "", FALSE, NoFilter,
          << MetricMap(<<"stats", "cpu">>, "", "cpu_x2", <<TValue, TOp("*"), TNum(2)>>),
             MetricMap(<<"mode">>, "", "mode", << >>) >>)
\* a Prometheus file, filtered
ScrDb ==
  Scraper("db", "file", "prometheus", "", TRUE,
          [include |-> <<"^mem", "(">>, exclude |-> <<"st">>],
          << MetricMap(<< >>, "mem", "mem", << >>),
             MetricMap(<< >>, "state", "state", << >>) >>)
\* a key=value file under the name of another scraper
ScrRaw ==
  Scraper("app", "file", "raw", "", FALSE, NoFilter,
          << MetricMap(<< >>, "cpu", "cpu", <<TValue, TOp("/"), TNum(0)>>) >>)
\* a raw source whose pattern does not compile
ScrBadPattern ==
  Scraper("db", "file", "raw", "(", FALSE, NoFilter,
          << MetricMap(<< >>, "cpu", "cpu", << >>) >>)
\* an unknown source type, under the name of the system section
ScrFtp ==
  Scraper("system", "ftp", "json", "", FALSE, NoFilter,
          << MetricMap(<<"mode">>, "", "mode", << >>) >>)
\* an unknown format, under the name of another scraper
ScrXml ==
  Scraper("app", "url", "xml", "", FALSE, NoFilter,
          << MetricMap(<<"mode">>, "", "mode", << >>) >>)

\* a JSON source behind a filter that keeps the keys matching "st", with
\* mappings that resolve, that miss, and one that names a path and a key
ScrPaths ==
  Scraper("paths", "url", "json", "", TRUE,
          [include |-> <<"st">>, exclude |-> << >>],
          << MetricMap(<<"stats", "cpu">>, "", "cpu", << >>),
             MetricMap(<<"stats", "missing">>, "", "missing", << >>),
             MetricMap(<<"stats", "cpu", "deep">>, "", "deep", << >>),
             MetricMap(<<"mode">>, "", "mode", << >>),
             MetricMap(<<"stats", "nope">>, "stats", "both", << >>),
             MetricMap(<< >>, "", "neither", << >>),
             MetricMap(<< >>, "stats", "all", <<TValue, TOp("*"), TNum(2)>>),
             MetricMap(<<"stats", "note">>, "", "note", <<TValue, TOp("+"), TNum(1)>>) >>)

\* a JSON source whose mappings carry a calculation, over values of each type
ScrCalc ==
  Scraper("calc", "file", "json", "", FALSE, NoFilter,
          << MetricMap(<<"stats", "cpu">>, "", "cpu_x2", <<TValue, TOp("*"), TNum(2)>>),
             MetricMap(<<"stats", "cpu">>, "", "cpu_raw", << >>),
             MetricMap(<<"stats", "note">>, "", "note", <<TValue, TOp("+"), TNum(1)>>),
             MetricMap(<<"stats", "note">>, "", "note_raw", << >>),
             MetricMap(<< >>, "mode", "mode", <<TValue, TOp("*"), TNum(2)>>),
             MetricMap(<<"stats">>, "", "stats", <<TValue, TOp("*"), TNum(2)>>),
             MetricMap(<<"stats", "on">>, "", "on", <<TValue, TOp("*"), TNum(2)>>),
             MetricMap(<<"stats", "list">>, "", "list", <<TValue, TOp("*"), TNum(2)>>),
             MetricMap(<<"stats", "none">>, "", "none", <<TValue, TOp("*"), TNum(2)>>),
             MetricMap(<<"stats", "gone">>, "", "gone", <<TValue, TOp("*"), TNum(2)>>) >>)

Config(secret, enabled, name, scrapers) ==
  [secret |-> secret, enabled |-> enabled, name |-> name, scrapers |-> scrapers]

\* configurations (config.Config) a server may be started with
HandlerConfigs ==
  { Config(FALSE, TRUE, "", <<ScrApp, ScrDb>>),
    Config(FALSE, TRUE, "", <<ScrApp, ScrRaw>>),
    Config(FALSE, TRUE, "", <<ScrFtp, ScrDb>>),
    Config(FALSE, TRUE, "", <<ScrXml, ScrApp>>),
    Config(FALSE, TRUE, "app", <<ScrApp, ScrRaw>>),
    Config(TRUE, FALSE, "host", <<ScrBadPattern, ScrRaw>>),
    Config(TRUE, TRUE, "host", << >>) }

\* concurrent requests: one against any configuration, more against the one
\* without scrapers
ScenarioH(c, n) == n = 1 \/ c.scrapers = << >>

SystemName == IF cfg.name = "" THEN "system" ELSE cfg.name

\* ------------------------------------------------------- MetricsHandler
\* positions in cfg.Scrapers
ScraperIds == 1..MaxScrapers

NoScraperTask == [st |-> "off", src |-> NoFetch, err |-> "", out |-> Nil]

\* handlers.Init (auth.Init, metrics.Init) on a configuration
InitH ==
  /\ now = 1
  /\ \E c \in HandlerConfigs, n \in Callers :
       /\ ScenarioH(c, n)
       /\ cfg = c
       /\ requestedMetrics = IF c.scrapers = << >> THEN {"cpu"}
                             ELSE {"ram_usage_percent"}
       /\ call = [r \in Callers |->
                    [pc |-> IF r <= n THEN "idle" ELSE "off",
                     cachedTime |-> 0, nowNano |-> 0, ret |-> Nil,
                     path |-> "none", firstTime |-> 0, firstNow |-> 0]]
       /\ h = [r \in Callers |->
                 IF r <= n
                 THEN [pc |-> "idle", status |-> 0, result |-> << >>, mu |-> 0,
                       next |-> 1, wg |-> 0,
                       task |-> [i \in DOMAIN c.scrapers |-> NoScraperTask],
                       merged |-> << >>, errors |-> {}, warns |-> << >>,
                       body |-> << >>]
                 ELSE NoHandler]
  /\ cachedMetrics = Nil
  /\ cacheTimestamp = 0
  /\ collectionMutex = 0
  /\ prevMetrics = [diskReadBytes |-> 0, diskWriteBytes |-> 0, netBytesSent |-> 0,
                    netBytesRecv |-> 0, timestamp |-> now]
  /\ prevBy = [diskIO |-> 0, network |-> 0, timestamp |-> 0]
  /\ col = [c \in Callers |-> NoCol]
  /\ hist = << >>

HUnchanged ==
  UNCHANGED << cfg, now, requestedMetrics, cachedMetrics, cacheTimestamp,
               collectionMutex, prevMetrics, prevBy, call, col, hist >>

\* lines 29-40: the signature check when a secret is configured; valid is
\* what auth.ValidateSignature returns for the request
HBegin(r) ==
  /\ h[r].pc = "idle"
  /\ \E valid \in BOOLEAN :
       IF cfg.secret /\ ~ valid
       THEN h' = [h EXCEPT ![r].pc = "done", ![r].status = 401]
       ELSE h' = [h EXCEPT ![r].pc = IF cfg.enabled THEN "system" ELSE "spawn"]
  /\ HUnchanged

\* line 44: the handler goroutine enters CollectSystem
HCollectSystem(r) ==
  /\ h[r].pc = "system"
  /\ call[r].pc = "idle"
  /\ call' = [call EXCEPT ![r] = Entered]
  /\ h' = [h EXCEPT ![r].pc = "inSystem"]
  /\ UNCHANGED << cfg, now, requestedMetrics, cachedMetrics, cacheTimestamp,
                  collectionMutex, prevMetrics, prevBy, col, hist >>

\* lines 44-49: CollectSystem has returned; result[systemName] = sysMetrics
HSystemDone(r) ==
  /\ h[r].pc = "inSystem"
  /\ call[r].pc = "idle"
  /\ h' = [h EXCEPT ![r].pc = "spawn",
                    ![r].result = (SystemName :> call[r].ret.m) @@ h[r].result]
  /\ HUnchanged

\* variant: the scrapers are started while CollectSystem is still running
HSpawn_Early(r) ==
  /\ h[r].pc \in {"system", "inSystem", "spawn"}
  /\ h[r].next <= Len(cfg.scrapers)
  /\ h' = [h EXCEPT ![r].wg = h[r].wg + 1, ![r].next = h[r].next + 1,
                    ![r].task[h[r].next].st = "run"]
  /\ HUnchanged

\* lines 54-76, one iteration: wg.Add(1) and the goroutine of the scraper
HSpawn(r) ==
  /\ h[r].pc = "spawn"
  /\ h[r].next <= Len(cfg.scrapers)
  /\ h' = [h EXCEPT ![r].wg = h[r].wg + 1, ![r].next = h[r].next + 1,
                    ![r].task[h[r].next].st = "run"]
  /\ HUnchanged

\* variant: the error of a scraper is not looked at
ScraperFails_Never(res) == FALSE

\* line 62: err != nil
ScraperFails(res) == res.err # ""

\* lines 61-65: CollectScraper; on an error log it, wg.Done and return
SCollect(r, i) ==
  /\ h[r].pc = "spawn"
  /\ i \in DOMAIN cfg.scrapers
  /\ h[r].task[i].st = "run"
  /\ \E src \in Sources(cfg.scrapers[i]) :
       LET res == CollectScraper(cfg.scrapers[i], src) IN
       IF ScraperFails(res)
       THEN h' = [h EXCEPT ![r].task[i] = [st |-> "done", src |-> src,
                                           err |-> res.err, out |-> res.metrics],
                           ![r].errors = h[r].errors \cup {i},
                           ![r].wg = h[r].wg - 1]
       ELSE h' = [h EXCEPT ![r].task[i] = [st |-> "lock", src |-> src,
                                           err |-> res.err, out |-> res.metrics]]
  /\ HUnchanged

\* line 67: mu.Lock()
SLock(r, i) ==
  /\ h[r].pc = "spawn"
  /\ i \in DOMAIN cfg.scrapers
  /\ h[r].task[i].st = "lock"
  /\ h[r].mu = 0
  /\ h' = [h EXCEPT ![r].mu = i, ![r].task[i].st = "merge"]
  /\ HUnchanged

\* variant: a name that already exists keeps its first value
SMerge_KeepFirst(r, i) ==
  /\ h[r].pc = "spawn"
  /\ i \in DOMAIN cfg.scrapers
  /\ h[r].task[i].st = "merge"
  /\ LET name == cfg.scrapers[i].name IN
     h' = [h EXCEPT ![r].warns = IF name \in DOMAIN h[r].result
                                 THEN Append(h[r].warns, i) ELSE h[r].warns,
                    ![r].result = h[r].result @@ (name :> h[r].task[i].out),
                    ![r].merged = Append(h[r].merged, i),
                    ![r].mu = 0,
                    ![r].wg = h[r].wg - 1,
                    ![r].task[i].st = "done"]
  /\ HUnchanged

\* lines 70-75 and the deferred mu.Unlock and wg.Done
SMerge(r, i) ==
  /\ h[r].pc = "spawn"
  /\ i \in DOMAIN cfg.scrapers
  /\ h[r].task[i].st = "merge"
  /\ LET name == cfg.scrapers[i].name IN
     h' = [h EXCEPT ![r].warns = IF name \in DOMAIN h[r].result
                                 THEN Append(h[r].warns, i) ELSE h[r].warns,
                    ![r].result = (name :> h[r].task[i].out) @@ h[r].result,
                    ![r].merged = Append(h[r].merged, i),
                    ![r].mu = 0,
                    ![r].wg = h[r].wg - 1,
                    ![r].task[i].st = "done"]
  /\ HUnchanged

\* variant: the result is encoded without waiting for the scrapers
HRespond_NoWait(r) ==
  /\ h[r].pc = "spawn"
  /\ h[r].next > Len(cfg.scrapers)
  /\ h' = [h EXCEPT ![r].pc = "done", ![r].status = 200, ![r].body = h[r].result]
  /\ HUnchanged

\* lines 79-82: wg.Wait returns; the result is encoded as the response
HRespond(r) ==
  /\ h[r].pc = "spawn"
  /\ h[r].next > Len(cfg.scrapers)
  /\ h[r].wg = 0
  /\ h' = [h EXCEPT ![r].pc = "done", ![r].status = 200, ![r].body = h[r].result]
  /\ HUnchanged

NextH ==
  \/ Tick
  \/ \E c \in Callers :
       \/ FastNow(c) \/ FastLoad(c) \/ Lock(c) \/ Recheck(c)
       \/ ReCached(c) \/ BeginCollection(c) \/ CloseChan(c)
       \/ Recv(c) \/ EndDrain(c) \/ StoreMetrics(c) \/ StoreTimestamp(c)
       \/ \E g \in Groups : Probe(c, g) \/ Send(c, g) \/ TaskExit(c, g)
  \/ \E r \in Callers :
       \/ HBegin(r) \/ HCollectSystem(r) \/ HSystemDone(r) \/ HSpawn(r)
       \/ HRespond(r)
       \/ \E i \in ScraperIds : SCollect(r, i) \/ SLock(r, i) \/ SMerge(r, i)

SpecH == InitH /\ [][NextH]_vars


\* ======================================================== cache properties
Returned(c) == call[c].pc = "idle" /\ call[c].path # "none"
SlowPath(c) == call[c].path \in {"recheck", "collect"}
\* capture time of the collection that produced a returned snapshot
CapturedAt(snap) == hist[snap.gen]

\* C1 as stated: every call that starts (makes its first validity check) on
\* a stale or empty cache inside the TTL window [capturedAt, capturedAt+TTL)
\* of a physical collection returns that collection's snapshot, so the
\* window sees one collection and identical snapshots.
C1_Original ==
  \A b \in Callers : \A k \in DOMAIN hist :
    ( /\ Returned(b)
      /\ ~ Fresh(call[b].firstTime, call[b].firstNow)
      /\ hist[k] <= call[b].firstNow
      /\ call[b].firstNow < hist[k] + cacheTTL )
    => call[b].ret.gen = k

\* C1 amended: the capture times of any two physical collections are at
\* least TTL apart, and every call that missed the fast path and sampled
\* the clock under the lock (line 126) inside the window of a collection
\* returns that collection's snapshot.
C1_SingleFlight ==
  /\ \A j, k \in DOMAIN hist :
       j < k => hist[k] - hist[j] >= cacheTTL
  /\ \A b \in Callers : \A k \in DOMAIN hist :
       ( /\ Returned(b) /\ SlowPath(b)
         /\ hist[k] <= call[b].nowNano
         /\ call[b].nowNano < hist[k] + cacheTTL )
       => call[b].ret.gen = k

\* two overlapping calls that both found the cache empty or stale: one
\* collected, the other returned the same snapshot after its re-check
C1_Witness ==
  \E a, b \in Callers :
    /\ a # b /\ Returned(a) /\ Returned(b)
    /\ call[a].path = "collect" /\ call[b].path = "recheck"
    /\ call[a].firstTime = call[b].firstTime
    /\ call[a].ret = call[b].ret

\* C2 as stated: a call whose first validity check finds the cached capture
\* time less than TTL old returns on the fast path, and what it returns is
\* the snapshot captured at that time.
C2_Claim ==
  \A c \in Callers :
    (Returned(c) /\ Fresh(call[c].firstTime, call[c].firstNow))
    => (call[c].path = "fast" /\ CapturedAt(call[c].ret) = call[c].firstTime)

\* the part of C2 that the code keeps: such a call returns on the fast path,
\* having neither taken the lock nor collected
C2_FastPathTaken ==
  \A c \in Callers :
    (Returned(c) /\ Fresh(call[c].firstTime, call[c].firstNow))
    => call[c].path = "fast"

\* C3 as stated: a caller that missed the fast path and finds, under the
\* lock, a capture time other than the one it first read (another caller
\* refreshed the cache meanwhile) returns that refresh's snapshot and does
\* not collect.
C3_Original ==
  \A b \in Callers :
    (Returned(b) /\ SlowPath(b) /\ call[b].cachedTime # call[b].firstTime)
    => (call[b].path = "recheck" /\ CapturedAt(call[b].ret) = call[b].cachedTime)

\* C3 amended: such a caller returns the refresh's snapshot without
\* collecting when its clock sample under the lock is less than TTL after
\* the refresh's capture time, and otherwise collects anew; it never
\* returns the stale snapshot it first saw.
C3_Recheck ==
  \A b \in Callers :
    (Returned(b) /\ SlowPath(b) /\ call[b].cachedTime # call[b].firstTime)
    => /\ IF call[b].nowNano - call[b].cachedTime < cacheTTL
          THEN call[b].path = "recheck" /\ CapturedAt(call[b].ret) = call[b].cachedTime
          ELSE call[b].path = "collect" /\ CapturedAt(call[b].ret) = call[b].nowNano
       /\ CapturedAt(call[b].ret) > call[b].firstTime

\* a waiter served by the refresh of another caller
C3_Witness ==
  \E b \in Callers :
    /\ Returned(b) /\ call[b].path = "recheck"
    /\ call[b].cachedTime # call[b].firstTime
    /\ CapturedAt(call[b].ret) = call[b].cachedTime

\* C4 as stated: the capture time a caller validated and the snapshot it
\* returns belong to the same collection.
C4_Claim ==
  \A c \in Callers :
    (Returned(c) /\ call[c].path \in {"fast", "recheck"})
    => hist[call[c].ret.gen] = call[c].cachedTime

\* the part of C4 that the code keeps: the validated capture time is never
\* newer than the returned snapshot
C4_NeverOlder ==
  \A c \in Callers :
    (Returned(c) /\ call[c].path \in {"fast", "recheck"})
    => hist[call[c].ret.gen] >= call[c].cachedTime

\* C5: a step of a caller that is not inside a physical collection leaves
\* the cache entry and the rate tracker unchanged, and the tracker's
\* timestamp is written once by every physical collection: its last writer
\* is the latest collection, or the one before while the latest is running.
C5_CacheHitFrame ==
  /\ [][ \A c \in Callers :
           (call'[c] # call[c] /\ call[c].pc \notin {"drain", "storeMetrics", "storeTimestamp"})
           => UNCHANGED << cachedMetrics, cacheTimestamp, prevMetrics, prevBy >> ]_vars
  /\ [][ << prevMetrics, prevBy >>' # << prevMetrics, prevBy >>
         => \E c \in Callers : col[c].active /\ collectionMutex = c ]_vars
  /\ [] ( prevBy.timestamp =
            IF \E c \in Callers : call[c].pc = "drain"
            THEN Len(hist) - 1 ELSE Len(hist) )

\* a cache hit after a physical collection
C5_Witness ==
  \E c \in Callers :
    /\ Returned(c) /\ call[c].path = "fast"
    /\ Len(hist) >= 1 /\ prevBy.timestamp = Len(hist)

\* =================================================== collection properties
GroupOf(key) == CHOOSE g \in Groups : key \in Range(GroupKeys[g])
Collected(c) == call[c].pc = "storeMetrics"
\* keys a running collection has sent or merged so far
EmittedKeys(c) ==
  (DOMAIN col[c].metrics) \cup { col[c].resultChan[i][1] : i \in DOMAIN col[c].resultChan }

\* C6 as stated: every *_per_sec value of a collection is
\* (current - previous) / elapsed rounded, where the previous counter and
\* the previous timestamp were both recorded by the collection before it.
C6_Claim ==
  \A c \in Callers :
    Collected(c) =>
      \A key \in RateKeys \cap DOMAIN col[c].metrics :
        LET t == col[c].task[GroupOf(key)] IN
        /\ col[c].metrics[key] =
             RatePerSec(Sub64(t.rd[CounterField(key)], col[c].prev[PrevField(key)]),
                        call[c].nowNano - col[c].prev.timestamp)
        /\ col[c].prevBy.timestamp = col[c].gen - 1
        /\ col[c].prevBy[GroupOf(key)] = col[c].gen - 1

\* the part of C6 that the code keeps: the value is computed from the
\* stored counter and the stored timestamp, and the timestamp is the one of
\* the collection before
C6_Formula ==
  \A c \in Callers :
    Collected(c) =>
      \A key \in RateKeys \cap DOMAIN col[c].metrics :
        LET t == col[c].task[GroupOf(key)] IN
        /\ col[c].metrics[key] =
             RatePerSec(Sub64(t.rd[CounterField(key)], col[c].prev[PrevField(key)]),
                        call[c].nowNano - col[c].prev.timestamp)
        /\ col[c].prevBy.timestamp = col[c].gen - 1

\* C7: the first physical collection sends no *_per_sec key, and a
\* *_per_sec key is sent only with a known previous counter (> 0) and
\* elapsed time > 0.
C7_RateOnlyWithPrev ==
  \A c \in Callers :
    col[c].active =>
      \A key \in RateKeys \cap EmittedKeys(c) :
        /\ col[c].gen > 1
        /\ col[c].prev[PrevField(key)] > 0
        /\ call[c].nowNano - col[c].prev.timestamp > 0

\* a finished collection that carries a rate, and one whose query succeeded
\* with the rate requested and withheld for want of a previous sample
C7_Witness ==
  \E c \in Callers :
    /\ Collected(c)
    /\ \E key \in RateKeys \cap requestedMetrics :
         /\ col[c].task[GroupOf(key)].ok[ProbeOf(key)]
         /\ \/ key \in DOMAIN col[c].metrics
            \/ col[c].gen > 1 /\ col[c].prev[PrevField(key)] = 0

C9_OnlyRequested ==
  /\ \A c \in Callers :
       /\ col[c].active => EmittedKeys(c) \subseteq requestedMetrics
       /\ call[c].ret # Nil => DOMAIN call[c].ret.m \subseteq requestedMetrics
  /\ cachedMetrics # Nil => DOMAIN cachedMetrics.m \subseteq requestedMetrics

\* a cached key whose query also yields a key that was not requested
C9_Witness ==
  /\ cachedMetrics # Nil
  /\ \E k \in DOMAIN cachedMetrics.m :
       \E k2 \in AllKeys \ requestedMetrics : ProbeOf(k2) = ProbeOf(k)

\* ====================================================== request properties
Responded(r) == h[r].pc = "done" /\ h[r].status = 200
ScraperName(i) == cfg.scrapers[i].name
\* the scrapers of a request whose pipeline returned an error, and the rest
FailedScrapers(r) == { i \in DOMAIN h[r].task : h[r].task[i].err # "" }
GoodScrapers(r)   == (DOMAIN h[r].task) \ FailedScrapers(r)
\* among the scrapers that wrote under a name, the one that wrote last
LastWriter(r, name) ==
  LET at == { k \in DOMAIN h[r].merged : ScraperName(h[r].merged[k]) = name }
  IN  h[r].merged[CHOOSE k \in at : \A k2 \in at : k2 <= k]

\* C10 as stated: in a response, the name of every scraper whose pipeline
\* returned an error is absent.
C10_Original ==
  \A r \in Callers :
    Responded(r) =>
      \A i \in FailedScrapers(r) : ScraperName(i) \notin DOMAIN h[r].body

\* a scraper whose pipeline returned an error writes nothing
\* to the response and the request is still answered: the response has
\* exactly the system name (when the system section is enabled) and the
\* names of the scrapers that succeeded; under each name stands the output
\* of the successful scraper that wrote it last, computed from that
\* scraper's own source alone, or the system snapshot when no successful
\* scraper has that name.
C10_Isolated ==
  \A r \in Callers :
    Responded(r) =>
      /\ \A i \in DOMAIN h[r].task :
           /\ h[r].task[i].st = "done"
           /\ h[r].task[i].err = CollectScraper(cfg.scrapers[i], h[r].task[i].src).err
           /\ h[r].task[i].out = CollectScraper(cfg.scrapers[i], h[r].task[i].src).metrics
      /\ Range(h[r].merged) = GoodScrapers(r)
      /\ h[r].errors = FailedScrapers(r)
      /\ DOMAIN h[r].body =
           (IF cfg.enabled THEN {SystemName} ELSE {})
             \cup { ScraperName(i) : i \in GoodScrapers(r) }
      /\ \A name \in DOMAIN h[r].body :
           IF \E i \in GoodScrapers(r) : ScraperName(i) = name
           THEN h[r].body[name] = h[r].task[LastWriter(r, name)].out
           ELSE h[r].body[name] = call[r].ret.m

\* C10 amended: the property above, and no scraper that failed keeps the
\* request from being answered: while the handler waits, the wait group
\* counts exactly the scraper goroutines still running and the result lock
\* is held only by a goroutine that is writing, so that once every scraper
\* has returned, with or without an error, wg.Wait returns.
C10_ErrorIsolation ==
  /\ C10_Isolated
  /\ \A r \in Callers :
       h[r].pc = "spawn" =>
         /\ h[r].wg = Cardinality({ i \in DOMAIN h[r].task :
                                      h[r].task[i].st \in {"run", "lock", "merge"} })
         /\ h[r].mu # 0 => h[r].task[h[r].mu].st = "merge"
         /\ \A i \in FailedScrapers(r) : h[r].task[i].st = "done"

\* a response to a request in which one scraper failed, another wrote its
\* output and the system snapshot is present
C10_Witness ==
  \E r \in Callers :
    /\ Responded(r)
    /\ FailedScrapers(r) # {}
    /\ GoodScrapers(r) # {}
    /\ cfg.enabled
    /\ SystemName \in DOMAIN h[r].body

\* positions in the merge order at which the name written already existed:
\* it is the system name, or the name of a scraper merged before
Collides(r, k) ==
  LET name == ScraperName(h[r].merged[k]) IN
  \/ cfg.enabled /\ name = SystemName
  \/ \E j \in 1..(k - 1) : ScraperName(h[r].merged[j]) = name

\* C11: the system snapshot is in the result before any scraper goroutine
\* is started; every name of the result holds the value written last (the
\* last scraper merged under it, else the system snapshot); one warning is
\* recorded for each write to a name that already existed and none for any
\* other write; and a request that passed the signature check ends with
\* status 200.
C11_LaterWins ==
  \A r \in Callers :
    /\ h[r].pc \in {"idle", "system", "inSystem"} =>
         /\ h[r].merged = << >>
         /\ \A i \in DOMAIN h[r].task : h[r].task[i].st = "off"
    /\ h[r].pc = "spawn" \/ Responded(r) =>
         /\ cfg.enabled => SystemName \in DOMAIN h[r].result
         /\ \A name \in DOMAIN h[r].result :
              IF \E k \in DOMAIN h[r].merged : ScraperName(h[r].merged[k]) = name
              THEN h[r].result[name] = h[r].task[LastWriter(r, name)].out
              ELSE h[r].result[name] = call[r].ret.m
         /\ Range(h[r].warns) =
              { h[r].merged[k] : k \in { j \in DOMAIN h[r].merged : Collides(r, j) } }
         /\ Len(h[r].warns) = Cardinality(Range(h[r].warns))
    /\ h[r].pc = "done" => \/ Responded(r) /\ h[r].body = h[r].result
                           \/ h[r].status = 401 /\ cfg.secret /\ h[r].result = << >>

\* a response in which three sources wrote the same name: the system
\* snapshot and two scrapers, with a warning for each of the two overwrites
C11_Witness ==
  \E r \in Callers :
    /\ Responded(r)
    /\ Len(h[r].merged) = 2
    /\ Len(h[r].warns) = 2
    /\ h[r].body[SystemName] = h[r].task[h[r].merged[2]].out

\* ======================================================= library functions
\* One call of a function of package parsers, metrics or utils on its own:
\* the arguments are drawn at the start, the call returns the result.
Frame(fn, args) == [pc |-> "call", fn |-> fn, args |-> args, ret |-> Nil]
Called(fn)   == h.pc = "call" /\ h.fn = fn
Returns(v)   == h' = [h EXCEPT !.pc = "ret", !.ret = v]
Result(fn)   == h.pc = "ret" /\ h.fn = fn
FnUnchanged  ==
  UNCHANGED << now, requestedMetrics, cachedMetrics, cacheTimestamp,
               collectionMutex, prevMetrics, prevBy, call, col, hist, cfg >>

\* scraper configurations and what their fetch returns
ScraperConfigs == { ScrApp, ScrDb, ScrRaw, ScrBadPattern, ScrFtp, ScrXml, ScrPaths,
                    ScrCalc }
CollectScraperInputs ==
  { <<s, src>> : s \in ScraperConfigs, src \in FetchResults }

CallCollectScraper ==
  /\ Called("CollectScraper")
  /\ Returns(CollectScraper(h.args[1], h.args[2]))
  /\ FnUnchanged

\* patterns of a filter, the last one not compiling, and the lists of them
Patterns == { "^mem", "st", ".*", "(" }
PatternLists == UNION { [1..n -> Patterns] : n \in 0..MaxPatterns }
\* parsed mappings handed to the filter
FilterData == { [mem |-> NumV(6), state |-> StrV("up")],
                ParseRaw(DocKV, "").m, ParseJSON(DocJSON).m }
ApplyFiltersInputs ==
  { <<data, [include |-> inc, exclude |-> exc]>> :
      data \in FilterData, inc \in PatternLists, exc \in PatternLists }

CallApplyFilters ==
  /\ Called("ApplyFilters")
  /\ Returns(ApplyFilters(h.args[1], h.args[2]))
  /\ FnUnchanged

\* values and expressions handed to Calculate: the documented forms
\* "value op c", the chained division, a bare "value", an operand that is no
\* number, a negative literal, value as the second operand, the empty text
Operators == { "*", "/", "+", "-" }
CalcValues == { -2097152, -5, 0, 5, 10, 50, 2097152 }
CalcExprs ==
  { <<TValue, TOp(c), TNum(n)>> : c \in Operators, n \in {0, 2} }
    \cup { <<TValue, TOp(c), TWord>> : c \in Operators }
    \cup { <<TValue, TOp(c), TNum(-2)>> : c \in Operators }
    \cup { << >>, <<TValue>>, <<TWord>>,
           <<TValue, TOp("/"), TNum(1024), TOp("/"), TNum(1024)>>,
           <<TNum(100), TOp("-"), TValue>>, <<TNum(1), TOp("/"), TValue>>,
           <<TNum(100), TOp("+"), TValue>> }
CalculateInputs == { <<v, expr>> : v \in CalcValues, expr \in CalcExprs }

CallCalculate ==
  /\ Called("Calculate")
  /\ Returns(Calculate(h.args[1], h.args[2]))
  /\ FnUnchanged

\* lines of a Prometheus exposition: a comment, a comment without a space,
\* a plain sample, a blank line, a sample whose value is no number, a
\* labelled sample, a single token, a sample followed by a timestamp, a
\* token that is only labels
PromSamples ==
  [comment  |-> << <<Y("#")>>, <<W("HELP")>>, <<W("mem")>> >>,
   hashed   |-> << <<Y("#"), W("mem")>>, <<W("4")>> >>,
   plain    |-> << <<W("mem")>>, <<W("4")>> >>,
   blank    |-> << >>,
   text     |-> << <<W("state")>>, <<W("up")>> >>,
   labelled |-> << <<W("mem"), Y("{"), W("a"), Y("=")>> \o Quoted("1") \o <<Y("}")>>,
                   <<W("6")>> >>,
   lonely   |-> << <<W("lonely")>> >>,
   stamped  |-> << <<W("bar")>>, <<W("7")>>, <<W("2")>> >>,
   braces   |-> << <<Y("{"), W("a"), Y("}")>>, <<W("2")>> >>]
PromLines == { PromSamples[k] : k \in DOMAIN PromSamples }
Texts(lines) == UNION { [1..n -> lines] : n \in 0..MaxLines }
ParsePrometheusInputs ==
  { << [syntax |-> "prom", lines |-> << >>, text |-> t] >> : t \in Texts(PromLines) }

CallParsePrometheus ==
  /\ Called("ParsePrometheus")
  /\ Returns(ParsePrometheus(h.args[1]))
  /\ FnUnchanged

\* lines of key=value text: two pairs, a numeric pair, a key after a dot
\* and a value holding "=", a key without value and a value without key, a
\* word, a number followed by a comma
RawSamples ==
  [pairs  |-> << <<W("cpu"), Y("="), W("2")>>, <<W("host"), Y("="), W("a")>> >>,
   number |-> << <<W("cpu"), Y("="), W("7")>> >>,
   dotted |-> << <<W("a"), Y("."), W("b"), Y("="), W("c"), Y("="), W("d")>> >>,
   halves |-> << <<W("x"), Y("=")>>, <<Y("="), W("y")>> >>,
   word   |-> << <<W("plain")>> >>,
   comma  |-> << <<W("cpu"), Y("="), W("4"), Y(",")>> >>]
RawLines == { RawSamples[k] : k \in DOMAIN RawSamples }
RawPatterns == { "", DefaultPattern, NoGroups, "(" }
ParseRawInputs ==
  { << [syntax |-> "kv", lines |-> << >>, text |-> t], p >> :
      t \in Texts(RawLines), p \in RawPatterns }

CallParseRaw ==
  /\ Called("ParseRaw")
  /\ Returns(ParseRaw(h.args[1], h.args[2]))
  /\ FnUnchanged

\* ------------------------------------------------ auth.ValidateSignature
\* int64 arithmetic: the value of x in -(MaxInt + 1) .. MaxInt
Wrap64(x) == ((x + MaxInt + 1) % (2 * (MaxInt + 1))) - (MaxInt + 1)
\* auth.abs
abs(n) == IF n < 0 THEN Wrap64(0 - n) ELSE n

\* a header value: absent (or empty), the decimal text of an int64, or text
\* that strconv.ParseInt rejects
NoHeader     == [k |-> "none", n |-> 0]
TextHeader   == [k |-> "text", n |-> 0]
IntHeader(n) == [k |-> "int", n |-> n]
TimestampHeaders ==
  { NoHeader, TextHeader } \cup { IntHeader(n) : n \in (0 - MaxInt - 1)..MaxInt }

\* hex(HMAC-SHA256(key, text)): equal exactly for equal key and text
Hmac(key, text) == [k |-> "hex", key |-> key, over |-> text]
NoSignature == [k |-> "none", key |-> "", over |-> NoHeader]
ServerSecret == "secret"
Signatures ==
  { NoSignature } \cup
  { Hmac(key, t) : key \in { ServerSecret, "other" }, t \in TimestampHeaders \ { NoHeader } }

\* variant: the difference to the current time is taken without wrapping
TooFarOff_Exact(unixNow, ts) ==
  (IF unixNow - ts < 0 THEN ts - unixNow ELSE unixNow - ts) > Window

\* lines 34-35: abs(now - ts) > 300
TooFarOff(unixNow, ts) == abs(Wrap64(unixNow - ts)) > Window

\* lines 20-45, for a request's two headers at the Unix time unixNow
ValidateSignature(r, unixNow) ==
  IF r.signature.k = "none" \/ r.timestamp.k = "none" THEN FALSE
  ELSE IF r.timestamp.k # "int" THEN FALSE
  ELSE IF TooFarOff(unixNow, r.timestamp.n) THEN FALSE
  ELSE r.signature = Hmac(ServerSecret, r.timestamp)

ValidateSignatureInputs ==
  { << [signature |-> sig, timestamp |-> t], u >> :
      sig \in Signatures, t \in TimestampHeaders, u \in 1..MaxTime }

CallValidateSignature ==
  /\ Called("ValidateSignature")
  /\ Returns(ValidateSignature(h.args[1], h.args[2]))
  /\ FnUnchanged

\* ------------------------------------------------------------ utils.Round
\* A float64 argument is a number of thousandths; the result is n / ratio.
\* lines 87-90: ratio = 10^precision
RECURSIVE Ratio(_)
Ratio(precision) == IF precision = 0 THEN 1 ELSE 10 * Ratio(precision - 1)

\* the quotient a / b with its fraction cut off (b positive)
Trunc(a, b) == IF a >= 0 THEN a \div b ELSE 0 - ((0 - a) \div b)

\* int(a / b): the quotient cut towards zero when an int can hold it;
\* otherwise the result depends on the implementation (the smallest int on
\* amd64, the nearest bound on arm64)
IntOf(a, b) ==
  IF Trunc(a, b) \in -(MaxInt + 1)..MaxInt THEN { Trunc(a, b) }
  ELSE { -(MaxInt + 1), MaxInt }

\* utils.Round, line 91: float64(int(val*ratio + 0.5)) / ratio; the set of
\* results a build may give
Round(val, precision) ==
  { QuotV(n, Ratio(precision)) :
      n \in IntOf(val * Ratio(precision) + 500, 1000) }

\* arguments: every number of thousandths around zero and up to beyond the
\* largest int, at the precision the collector uses and at precision 0
RoundValues == -(10 * MaxInt + 15)..(10 * MaxInt + 15)
RoundInputs == { <<v, p>> : v \in RoundValues, p \in {0, 2} }

CallRound ==
  /\ Called("Round")
  /\ \E v \in Round(h.args[1], h.args[2]) : Returns(v)
  /\ FnUnchanged

\*+ further calls

InitFn ==
  /\ now = 1
  /\ requestedMetrics = {}
  /\ cachedMetrics = Nil
  /\ cacheTimestamp = 0
  /\ collectionMutex = 0
  /\ prevMetrics = [diskReadBytes |-> 0, diskWriteBytes |-> 0, netBytesSent |-> 0,
                    netBytesRecv |-> 0, timestamp |-> now]
  /\ prevBy = [diskIO |-> 0, network |-> 0, timestamp |-> 0]
  /\ call = [c \in Callers |->
               [pc |-> "off", cachedTime |-> 0, nowNano |-> 0, ret |-> Nil,
                path |-> "none", firstTime |-> 0, firstNow |-> 0]]
  /\ col = [c \in Callers |-> NoCol]
  /\ hist = << >>
  /\ cfg = NoScrapers
  /\ \/ \E a \in CollectScraperInputs : h = Frame("CollectScraper", a)
     \/ \E a \in ApplyFiltersInputs : h = Frame("ApplyFilters", a)
     \/ \E a \in CalculateInputs : h = Frame("Calculate", a)
     \/ \E a \in ParsePrometheusInputs : h = Frame("ParsePrometheus", a)
     \/ \E a \in ParseRawInputs : h = Frame("ParseRaw", a)
     \/ \E a \in ValidateSignatureInputs : h = Frame("ValidateSignature", a)
     \/ \E a \in RoundInputs : h = Frame("Round", a)

NextFn ==
  \/ CallCollectScraper
  \/ CallApplyFilters
  \/ CallCalculate
  \/ CallParsePrometheus
  \/ CallParseRaw
  \/ CallValidateSignature
  \/ CallRound

SpecFn == InitFn /\ [][NextFn]_vars

\* ===================================================== pipeline properties
\* the parse of CollectScraper's format switch fails on this text
ParseFails(s, doc) ==
  \/ s.format = "json" /\ doc.syntax # "json"
  \/ s.format = "raw" /\ ~ Compiles(s.pattern)

C13_FilterRule ==
  Result("ApplyFilters") =>
    LET data == h.args[1]
        inc  == h.args[2].include
        exc  == h.args[2].exclude
        keep(key) == /\ inc = << >> \/ \E p \in Range(inc) : Matched(p, key)
                     /\ ~ \E p \in Range(exc) : Matched(p, key)
    IN  /\ DOMAIN h.ret \subseteq DOMAIN data
        /\ \A key \in DOMAIN data :
             /\ key \in DOMAIN h.ret <=> keep(key)
             /\ key \in DOMAIN h.ret => h.ret[key] = data[key]

\* a key matched by an include and by an exclude pattern is removed, while
\* another key is retained
C13_Witness ==
  /\ Result("ApplyFilters")
  /\ \E key \in DOMAIN h.args[1] :
       /\ \E p \in Range(h.args[2].include) : Matched(p, key)
       /\ \E p \in Range(h.args[2].exclude) : Matched(p, key)
       /\ key \notin DOMAIN h.ret
  /\ DOMAIN h.ret # {}

\* the paths that lead to a value inside v
RECURSIVE PathsOf(_)
PathsOf(v) ==
  IF v.t # "map" THEN { << >> }
  ELSE { << >> } \cup UNION { { <<k>> \o q : q \in PathsOf(v.m[k]) } : k \in DOMAIN v.m }

\* a call of CollectScraper that got past fetch and parse, and the mapping
\* the Map stage reads: the parsed one after the filter
Mapped == Result("CollectScraper") /\ h.ret.err = ""
ParsedOf(s, doc) ==
  CASE s.format = "json"       -> ParseJSON(doc).m
    [] s.format = "prometheus" -> ParsePrometheus(doc).m
    [] s.format = "raw"        -> ParseRaw(doc, s.pattern).m
FilteredOf(s, doc) ==
  IF s.hasFilter THEN ApplyFilters(ParsedOf(s, doc), s.filter) ELSE ParsedOf(s, doc)
PathResolves(mm, m)  == mm.path # << >> /\ mm.path \in PathsOf(MapV(m))
MatchResolves(mm, m) == mm.match # "" /\ mm.match \in DOMAIN m

\* C14 as stated: a configured mapping produces its output name if and only
\* if its path or its match key resolves in the parsed mapping after
\* filtering.
C14_Original ==
  Mapped =>
    LET s == h.args[1]
        m == FilteredOf(s, h.args[2].doc)
    IN  \A i \in DOMAIN s.metrics :
          s.metrics[i].name \in DOMAIN h.ret.metrics
            <=> (PathResolves(s.metrics[i], m) \/ MatchResolves(s.metrics[i], m))

\* C14 amended: a configured mapping produces its output name if and only
\* if its lookup resolves in the parsed mapping after filtering, the lookup
\* being the path when a path is configured and the match key only when no
\* path is; a mapping that does not resolve adds no key and no error, and
\* the mappings after it are still processed.
C14_MapRule ==
  Mapped =>
    LET s == h.args[1]
        m == FilteredOf(s, h.args[2].doc)
    IN  /\ \A i \in DOMAIN s.metrics :
             s.metrics[i].name \in DOMAIN h.ret.metrics
               <=> IF s.metrics[i].path # << >> THEN PathResolves(s.metrics[i], m)
                   ELSE MatchResolves(s.metrics[i], m)
        /\ DOMAIN h.ret.metrics \subseteq { s.metrics[i].name : i \in DOMAIN s.metrics }

\* a call in which a path segment is missing, an intermediate value is no
\* mapping, a key was removed by the filter, and mappings before and after
\* them produced their keys
C14_Witness ==
  /\ Mapped
  /\ h.args[1] = ScrPaths
  /\ "mode" \in DOMAIN ParsedOf(ScrPaths, h.args[2].doc)
  /\ DOMAIN h.ret.metrics = {"cpu", "all", "note"}

\* the value a mapping that resolves reads from the filtered mapping m
ResolvedValue(mm, m) ==
  IF mm.path # << >> THEN Walk(MapV(m), mm.path).value ELSE m[mm.match]
Resolves(mm, m) ==
  IF mm.path # << >> THEN PathResolves(mm, m) ELSE MatchResolves(mm, m)

\* C15 as stated: the evaluator is applied if and only if the mapping
\* resolved, calculate is non-empty and the value is a number; a resolved
\* value of any other type, strings included, is stored unchanged.
C15_Original ==
  Mapped =>
    LET s == h.args[1]
        m == FilteredOf(s, h.args[2].doc)
    IN  \A i \in DOMAIN s.metrics :
          LET mm == s.metrics[i]  v == ResolvedValue(mm, m) IN
          Resolves(mm, m) =>
            h.ret.metrics[mm.name] =
              IF mm.calculate # << >> /\ v.t = "num"
              THEN Calculate(v.n, mm.calculate) ELSE v

\* C15 amended: the evaluator is applied if and only if the mapping
\* resolved, calculate is non-empty and the value is a number or a string
\* that parses as a number; in the string case the number computed from the
\* parsed string is stored in place of the string. Every other resolved
\* value (a string that is no number, a list, a nested mapping, a boolean,
\* null), and every value of a mapping without calculate, is stored
\* unchanged in value and type.
C15_TransformRule ==
  Mapped =>
    LET s == h.args[1]
        m == FilteredOf(s, h.args[2].doc)
    IN  \A i \in DOMAIN s.metrics :
          LET mm == s.metrics[i]  v == ResolvedValue(mm, m) IN
          Resolves(mm, m) =>
            h.ret.metrics[mm.name] =
              CASE mm.calculate # << >> /\ v.t = "num" -> Calculate(v.n, mm.calculate)
                [] mm.calculate # << >> /\ v.t = "str" /\ v.s \in DOMAIN NumericText
                     -> Calculate(NumericText[v.s], mm.calculate)
                [] OTHER -> v

\* a call that transformed a number and a numeric string and stored a plain
\* string, a nested mapping, a boolean, a list and null unchanged
C15_Witness ==
  /\ Mapped
  /\ h.args[1] = ScrCalc
  /\ DOMAIN h.ret.metrics = {"cpu_x2", "cpu_raw", "note", "note_raw", "mode",
                             "stats", "on", "list", "none"}
  /\ h.ret.metrics["cpu_x2"] = NumV(6)
  /\ h.ret.metrics["note"] = NumV(8)
  /\ h.ret.metrics["note_raw"] = StrV("7")
  /\ h.ret.metrics["on"] = OtherV("bool")

-----------------------------------------------------------------------------
\* Expression evaluator

\* C16: for every value v (positive, zero or negative), every operator op of
\* * / + - and every unsigned literal c, Calculate(v, "value op c") returns
\* v op c.
C16_Claim ==
  Result("Calculate") =>
    \A c \in Operators : \A n \in 0..2 :
      h.args[2] = <<TValue, TOp(c), TNum(n)>> => h.ret = Arith(c, h.args[1], n)

\* the operator characters written in an expression, and the one the
\* evaluator's priority * / + - picks among them
OpsIn(expr) == { expr[i].c : i \in { j \in DOMAIN expr : expr[j].k = "op" } }
PickedOp(expr) ==
  CASE "*" \in OpsIn(expr) -> "*" [] "/" \in OpsIn(expr) -> "/"
    [] "+" \in OpsIn(expr) -> "+" [] OTHER -> "-"
\* the text after the first occurrence of the picked operator
AfterOp(expr, value) ==
  LET at == { i \in DOMAIN expr : expr[i] = TOp(PickedOp(expr)) }
      i  == CHOOSE j \in at : \A k \in at : j <= k
  IN  Substituted(SubSeq(expr, i + 1, Len(expr)), value)

\* C17: Calculate always returns; when the expression contains none of the
\* operators * / + -, or the text after the operator does not parse as a
\* number, it returns value unchanged; a division by zero returns
\* infinity; Calculate(50, "value * 2") is 100.
C17_Claim ==
  Result("Calculate") =>
    LET v == h.args[1]  expr == h.args[2] IN
    /\ h.ret # Nil
    /\ OpsIn(expr) = {} => h.ret = NumV(v)
    /\ (OpsIn(expr) # {} /\ ~ParsePart(AfterOp(expr, v)).ok) => h.ret = NumV(v)
    /\ (expr = <<TValue, TOp("/"), TNum(0)>> /\ v # 0) => h.ret = QuotV(v, 0)
    /\ (v = 50 /\ expr = <<TValue, TOp("*"), TNum(2)>>) => h.ret = NumV(100)

\* C18: for every value v, the transform "value / 1024 / 1024" stores v
\* divided by 1024 and again by 1024.
C18_Claim ==
  (Result("Calculate")
     /\ h.args[2] = <<TValue, TOp("/"), TNum(1024), TOp("/"), TNum(1024)>>)
  => h.ret = Quot(h.args[1], 1024 * 1024)

-----------------------------------------------------------------------------
\* Parsers

\* a line that is not blank, does not start with "#" and has at least two
\* tokens of which the second parses as a number; its name and its number
Qualifies(line) ==
  /\ line # << >>
  /\ Head(Head(line)) # Y("#")
  /\ Len(line) >= 2
  /\ ParseFloat(Joined(line[2])).ok
NameOf(line)   == Joined(BeforeBrace(line[1]))
NumberOf(line) == NumV(ParseFloat(Joined(line[2])).f)

\* C19 as stated: ParsePrometheus never returns an error, and its result
\* holds, for every qualifying line, the entry (first token without its
\* "{...}" suffix -> the number), and nothing else.
C19_Original ==
  Result("ParsePrometheus") =>
    LET text == h.args[1].text IN
    /\ ~ h.ret.err
    /\ \A i \in DOMAIN text :
         Qualifies(text[i]) =>
           /\ NameOf(text[i]) \in DOMAIN h.ret.m
           /\ h.ret.m[NameOf(text[i])] = NumberOf(text[i])
    /\ \A k \in DOMAIN h.ret.m :
         \E i \in DOMAIN text : Qualifies(text[i]) /\ NameOf(text[i]) = k

\* C19 amended: ParsePrometheus never returns an error; the result has a
\* key for the name of every qualifying line and no other key, and under a
\* name it holds the number of the last qualifying line of that name: lines
\* that differ only in their labels share one entry.
C19_LastLineWins ==
  Result("ParsePrometheus") =>
    LET text == h.args[1].text IN
    /\ ~ h.ret.err
    /\ \A i \in DOMAIN text :
         Qualifies(text[i]) =>
           /\ NameOf(text[i]) \in DOMAIN h.ret.m
           /\ (\A j \in DOMAIN text :
                 j > i => ~(Qualifies(text[j]) /\ NameOf(text[j]) = NameOf(text[i])))
              => h.ret.m[NameOf(text[i])] = NumberOf(text[i])
    /\ \A k \in DOMAIN h.ret.m :
         \E i \in DOMAIN text : Qualifies(text[i]) /\ NameOf(text[i]) = k

\* a labelled sample, a comment and a sample with a timestamp were parsed:
\* the label suffix is gone and the comment left nothing
C19_Witness ==
  /\ Result("ParsePrometheus")
  /\ h.args[1].text = << PromSamples.labelled, PromSamples.comment, PromSamples.stamped >>
  /\ h.ret = ParseOk(("mem" :> NumV(6)) @@ ("bar" :> NumV(7)))

\* C20: with an empty pattern ParseRaw uses the default key=value pattern
\* and never fails; every match over the text is stored in textual order
\* under its first capture group, as a number when the second group parses
\* as a number and as the text of the second group otherwise.
C20_DefaultPattern ==
  (Result("ParseRaw") /\ h.args[2] = "") =>
    LET matches == FindAllStringSubmatch(h.args[1].text, DefaultPattern) IN
    /\ h.ret = ParseRaw(h.args[1], DefaultPattern)
    /\ ~ h.ret.err
    /\ DOMAIN h.ret.m = { matches[i][2] : i \in DOMAIN matches }
    /\ \A i \in DOMAIN matches :
         (\A j \in DOMAIN matches : j > i => matches[j][2] # matches[i][2])
         => h.ret.m[matches[i][2]] =
              IF matches[i][3] \in DOMAIN NumericText
              THEN NumV(NumericText[matches[i][3]]) ELSE StrV(matches[i][3])

\* a call with an empty pattern that stored a number and a string
C20_Witness ==
  /\ Result("ParseRaw")
  /\ h.args[2] = ""
  /\ h.args[1].text = << RawSamples.pairs, RawSamples.comma >>
  /\ h.ret = ParseOk(("cpu" :> StrV("4,")) @@ ("host" :> StrV("a")))

-----------------------------------------------------------------------------
\* Authentication

\* C21, the signature check: a request whose X-Signature or X-Timestamp
\* header is missing, whose timestamp is not an integer or differs from the
\* current time by more than the window, or whose signature is not the hex
\* HMAC of the timestamp under the secret, is rejected.
C21_Claim ==
  Result("ValidateSignature") =>
    LET r == h.args[1]  u == h.args[2] IN
    (\/ r.signature.k = "none"
     \/ r.timestamp.k = "none"
     \/ r.timestamp.k # "int"
     \/ r.timestamp.n - u > Window
     \/ u - r.timestamp.n > Window
     \/ r.signature # Hmac(ServerSecret, r.timestamp))
    => h.ret = FALSE

\* the part of C21 the handler keeps: a request answered 401 has read no
\* cache, started no collection and run no scraper, and without a secret no
\* request is answered 401
C21_RejectedDoesNothing ==
  \A r \in Callers :
    h[r].pc # "none" =>
      /\ h[r].status = 401 =>
           /\ cfg.secret
           /\ call[r].path = "none" /\ call[r].pc = "idle"
           /\ h[r].next = 1 /\ h[r].result = << >>
           /\ \A i \in DOMAIN h[r].task : h[r].task[i].st = "off"
      /\ ~ cfg.secret => h[r].status # 401

-----------------------------------------------------------------------------
\* Staleness and failures of the cached snapshot

\* C22 as stated, for a cache hit on the fast path that returns the entry
\* whose capture time it validated, while that entry comes from the only
\* physical collection so far: the snapshot is returned no more than TTL
\* plus that collection's duration after its capture. The collection had
\* ended when the call read its capture time, so its duration is at most
\* the call's clock sample minus the capture time.
C22_Claim ==
  [][ \A c \in Callers :
        ( /\ call[c].pc = "fastLoad" /\ call'[c].pc = "idle"
          /\ Len(hist) = 1
          /\ CapturedAt(call'[c].ret) = call[c].cachedTime )
        => now' - CapturedAt(call'[c].ret)
             <= cacheTTL + (call[c].nowNano - CapturedAt(call'[c].ret)) ]_vars

\* C22 amended: a snapshot returned from the cache was captured less than
\* TTL before the clock sample on which the call decided (line 112 or
\* 126), and a call that collects returns the snapshot captured at its own
\* clock sample.
C22_FreshAtSample ==
  \A c \in Callers :
    Returned(c) =>
      IF call[c].path = "collect"
      THEN CapturedAt(call[c].ret) = call[c].nowNano
      ELSE /\ call[c].nowNano - CapturedAt(call[c].ret) < cacheTTL
           /\ CapturedAt(call[c].ret) > 0

\* a call served from the cache at the last clock value the entry is valid
\* for, and returned after the entry's TTL had passed
C22_Witness ==
  \E c \in Callers :
    /\ Returned(c) /\ call[c].path = "fast"
    /\ call[c].nowNano - CapturedAt(call[c].ret) = cacheTTL - 1
    /\ now - CapturedAt(call[c].ret) > cacheTTL

\* C23: a snapshot of a collection in which queries failed is the cache
\* entry like any other: once its collection has returned and until the
\* next one starts it is the stored snapshot under its capture time; every
\* call that decides on a clock sample less than TTL after its capture is
\* served from the cache (a call deciding under the lock gets this very
\* snapshot) and no collection starts before TTL has passed since its
\* capture; a call that finds it expired under the lock collects anew.
C23_PartialCached ==
  /\ \A c \in Callers :
       (Returned(c) /\ call[c].path = "collect" /\ call[c].ret.gen = Len(hist))
       => /\ cachedMetrics = call[c].ret
          /\ cacheTimestamp = CapturedAt(call[c].ret)
  /\ (cachedMetrics # Nil /\ PartialSnapshot(cachedMetrics))
     => LET k == cachedMetrics.gen IN
        /\ \A j \in DOMAIN hist : j > k => hist[j] - hist[k] >= cacheTTL
        /\ \A b \in Callers :
             (Returned(b) /\ hist[k] <= call[b].nowNano
                /\ call[b].nowNano < hist[k] + cacheTTL /\ cacheTimestamp = hist[k])
             => /\ call[b].path = "collect" => call[b].ret.gen = k
                /\ call[b].path = "recheck" => call[b].ret = cachedMetrics
                /\ call[b].path = "fast" => call[b].ret.gen <= k
  /\ \A b \in Callers :
       (Returned(b) /\ SlowPath(b))
       => (call[b].path = "collect" <=> ~ Fresh(call[b].cachedTime, call[b].nowNano))

\* after the first entry expired a new collection ran; one of its queries
\* failed, its snapshot is the cache entry and was served to a later call
C23_Witness ==
  \E b \in Callers :
    /\ cachedMetrics # Nil /\ PartialSnapshot(cachedMetrics)
    /\ Returned(b) /\ call[b].path \in {"fast", "recheck"}
    /\ call[b].ret = cachedMetrics
    /\ cachedMetrics.gen > 1

-----------------------------------------------------------------------------
\* Algebra of the filter

\* C24: ApplyFilters is idempotent: filtering the result of ApplyFilters
\* again with the same filter returns that result.
C24_Idempotent ==
  Result("ApplyFilters") => ApplyFilters(h.ret, h.args[2]) = h.ret

\* a filter that removed some keys and kept others, and keeps them when it
\* is applied to its own result
C24_Witness ==
  /\ Result("ApplyFilters")
  /\ h.ret # << >>
  /\ DOMAIN h.ret # DOMAIN h.args[1]
  /\ h.args[2].include # << >> /\ h.args[2].exclude # << >>
  /\ ApplyFilters(h.ret, h.args[2]) = h.ret

-----------------------------------------------------------------------------
\* Order of the handler's steps

\* a request whose handler is inside the call of CollectSystem
InCollectSystem(r) == h[r].pc \in {"system", "inSystem"}
Started(r, i) == h[r].task[i].st # "off"

\* C25 as stated: CollectSystem runs concurrently with the scraper
\* pipelines, their start does not wait for its return: while a request is
\* inside CollectSystem its scraper pipelines have been started.
C25_Original ==
  \A r \in Callers :
    (h[r].pc = "inSystem" /\ call[r].pc # "idle")
    => \A i \in DOMAIN cfg.scrapers : Started(r, i)

\* C25 amended: CollectSystem runs to its return on the handler's goroutine
\* before any scraper pipeline of the request is started, and its snapshot
\* is in the result by then; the pipelines run concurrently with each
\* other, and the response is encoded only once all have completed.
C25_SystemFirst ==
  \A r \in Callers :
    h[r].pc # "none" =>
      /\ (h[r].pc = "idle" \/ InCollectSystem(r))
         => \A i \in DOMAIN cfg.scrapers : ~ Started(r, i)
      /\ \A i \in DOMAIN cfg.scrapers :
           (Started(r, i) /\ cfg.enabled)
           => (call[r].pc = "idle" /\ call[r].path # "none"
               /\ SystemName \in DOMAIN h[r].result)
      /\ h[r].status = 200
         => \A i \in DOMAIN cfg.scrapers : h[r].task[i].st = "done"

\* CollectSystem has returned and two scraper pipelines are in progress at
\* the same time
C25_Witness ==
  \E r \in Callers :
    /\ h[r].pc = "spawn" /\ cfg.enabled
    /\ call[r].path = "collect"
    /\ Len(cfg.scrapers) = 2
    /\ h[r].task[1].st = "lock" /\ h[r].task[2].st = "run"

-----------------------------------------------------------------------------
\* The collection lock

\* the callers inside CollectSystem's critical section (lines 122-140)
UnderLock(c) ==
  call[c].pc \in {"recheck", "reCached", "collect", "drain", "storeMetrics",
                  "storeTimestamp"}

\* C26: at most one physical collection is executing at any time, and the
\* cache entry and the rate tracker's fields are written only by steps of
\* the caller that holds collectionMutex or of the group tasks of its
\* collection, all of which have finished when the lock is released.
C26_WritesUnderLock ==
  /\ [] ( /\ Cardinality({ c \in Callers : col[c].active }) <= 1
          /\ \A c \in Callers : UnderLock(c) <=> collectionMutex = c
          /\ Cardinality({ c \in Callers : call[c].pc = "drain" }) <= 1
          /\ \A c \in Callers : col[c].active => UnderLock(c) )
  /\ [][ << cachedMetrics, cacheTimestamp, prevMetrics >>'
           # << cachedMetrics, cacheTimestamp, prevMetrics >>
         => \E c \in Callers :
              /\ collectionMutex = c /\ UnderLock(c)
              /\ (call'[c] # call[c] \/ col'[c] # col[c])
              /\ \A d \in Callers \ {c} : call'[d] = call[d] /\ col'[d] = col[d] ]_vars
  /\ [][ \A c \in Callers :
           (collectionMutex = c /\ collectionMutex' = 0)
           => \A g \in Groups : col[c].active => col[c].task[g].st \in {"off", "exit"} ]_vars

\* a caller stores the snapshot of the collection it ran under the lock
\* while another caller waits for the lock
C26_Witness ==
  \E c, d \in Callers :
    /\ c # d
    /\ collectionMutex = c /\ call[c].pc = "storeTimestamp"
    /\ cachedMetrics = Snapshot(c)
    /\ call[d].pc = "lock"

-----------------------------------------------------------------------------
\* The result channel

\* what a group task sends in all, given what its queries returned, and
\* the part of it that it has sent so far
AllSends(c, g) ==
  LET t == col[c].task[g] IN
  IF t.st \in {"send", "exit"}
  THEN TaskSends(g, requestedMetrics, t.ok, t.rd, col[c].prev, col[c].timeDelta)
  ELSE << >>
Sent(c, g) == SubSeq(AllSends(c, g), 1, Len(AllSends(c, g)) - Len(col[c].task[g].out))

\* C27: no sent result is lost (it is in the channel or in the map), the
\* channel is closed only after every task has finished, so that no task
\* sends on the closed channel, and the snapshot a collection returns holds
\* exactly the key/value pairs its tasks sent: it is determined by what the
\* tasks' queries returned, whatever the order they ran in.
C27_NothingLost ==
  \A c \in Callers :
    col[c].active =>
      /\ \A g \in Groups : \A i \in DOMAIN Sent(c, g) :
           LET r == Sent(c, g)[i] IN
           \/ \E j \in DOMAIN col[c].resultChan : col[c].resultChan[j] = r
           \/ (r[1] \in DOMAIN col[c].metrics /\ col[c].metrics[r[1]] = r[2])
      /\ col[c].closed =>
           \A g \in Groups : /\ col[c].task[g].st \in {"off", "exit"}
                             /\ col[c].task[g].out = << >>
      /\ Collected(c) =>
           /\ DOMAIN col[c].metrics =
                UNION { { AllSends(c, g)[i][1] : i \in DOMAIN AllSends(c, g) } :
                        g \in Groups }
           /\ \A g \in Groups : \A i \in DOMAIN AllSends(c, g) :
                col[c].metrics[AllSends(c, g)[i][1]] = AllSends(c, g)[i][2]

\* a finished collection whose snapshot holds the results of two tasks
C27_Witness ==
  \E c \in Callers :
    /\ Collected(c)
    /\ {"disk_read_bytes", "process_count"} \subseteq DOMAIN col[c].metrics
    /\ Cardinality({ g \in Groups : AllSends(c, g) # << >> }) >= 2

-----------------------------------------------------------------------------
\* Termination of CollectSystem

\* the steps a group task has left, counting for every result still to be
\* sent its send and its receipt by the draining loop
TaskWork(c, g) ==
  LET t == col[c].task[g] IN
  CASE t.st = "run"  -> 2 + 2 * Len(GroupKeys[g])
    [] t.st = "send" -> 1 + 2 * Len(t.out)
    [] OTHER         -> 0

\* the steps a collection has left: those of its tasks, the receipt of
\* every buffered result, and the close of the channel
CollectionWork(c) ==
  IF col[c].active
  THEN Cardinality(UNION { {g} \X (1..TaskWork(c, g)) : g \in Groups })
         + Len(col[c].resultChan) + (IF col[c].closed THEN 0 ELSE 1)
  ELSE 0

MaxWork == 2 * Cardinality(Groups) + 2 * Cardinality(AllKeys) + 1

\* a bound on the steps a call has left before it returns
StepsLeft(c) ==
  CollectionWork(c) +
  ( CASE call[c].pc = "storeTimestamp" -> 1
      [] call[c].pc = "storeMetrics"   -> 2
      [] call[c].pc = "drain"          -> 3
      [] call[c].pc = "collect"        -> 4 + MaxWork
      [] call[c].pc = "reCached"       -> 5 + MaxWork
      [] call[c].pc = "recheck"        -> 6 + MaxWork
      [] call[c].pc = "lock"           -> 7 + MaxWork
      [] call[c].pc = "fastLoad"       -> 8 + MaxWork
      [] call[c].pc = "fastNow"        -> 9 + MaxWork
      [] OTHER                         -> 0 )

InCall(c) == call[c].pc \notin {"idle", "off"}

\* a step of the call of c or of a group task of its collection
CallStep(c) ==
  \/ FastNow(c) \/ FastLoad(c) \/ Lock(c) \/ Recheck(c) \/ ReCached(c)
  \/ BeginCollection(c) \/ CloseChan(c) \/ Recv(c) \/ EndDrain(c)
  \/ StoreMetrics(c) \/ StoreTimestamp(c)
  \/ \E g \in Groups : Probe(c, g) \/ Send(c, g) \/ TaskExit(c, g)

\* C28: every CollectSystem call returns. (1) Every step of a call or of
\* its group tasks brings the call strictly closer to its return. (2) A call
\* in progress can always take a step, unless it waits for collectionMutex,
\* and then the caller that holds the mutex is inside its critical section
\* and can take a step. (3) A group task with a result to send can send it
\* or the draining loop can receive one. (4) A caller that is not inside a
\* call does not hold collectionMutex.
C28_CallsReturn ==
  /\ [][ \A c \in Callers :
           (InCall(c) /\ (call'[c] # call[c] \/ col'[c] # col[c]))
             => StepsLeft(c)' < StepsLeft(c) ]_vars
  /\ [](\A c \in Callers :
          /\ InCall(c) =>
               \/ ENABLED CallStep(c)
               \/ /\ call[c].pc = "lock"
                  /\ collectionMutex \in Callers \ {c}
                  /\ UnderLock(collectionMutex)
                  /\ ENABLED CallStep(collectionMutex)
          /\ \A g \in Groups :
               (col[c].active /\ col[c].task[g].st = "send"
                              /\ col[c].task[g].out # << >>)
                 => (ENABLED Send(c, g) \/ ENABLED Recv(c))
          /\ ~ InCall(c) => collectionMutex # c)

\* a caller waits for the mutex while a group task of the collection of
\* the caller that holds it has a result to send
C28_Witness ==
  \E c, d \in Callers :
    /\ call[c].pc = "lock"
    /\ collectionMutex = d
    /\ call[d].pc = "drain"
    /\ \E g \in Groups : col[d].task[g].st = "send" /\ col[d].task[g].out # << >>

-----------------------------------------------------------------------------
\* The response and the scraper tasks

\* C29 as stated: the output of every successful scraper is in the
\* response.
C29_Original ==
  \A r \in Callers :
    Responded(r) =>
      \A i \in GoodScrapers(r) :
        /\ ScraperName(i) \in DOMAIN h[r].body
        /\ h[r].body[ScraperName(i)] = h[r].task[i].out

\* a goroutine of request r is writing to the result mapping
Writing(r, i) == h[r].task[i].st = "merge"

\* C29 amended: when the response is encoded every scraper task of the
\* request has finished, with or without an error, and the response holds
\* under the name of every successful scraper the output of the successful
\* scraper of that name that wrote last; a goroutine writes to the result
\* mapping only while it holds the result lock, which one goroutine holds at
\* a time, the handler's own write (the system snapshot) happens before any
\* scraper is started, and the mapping does not change once it is encoded.
C29_EncodedAfterAll ==
  /\ [](\A r \in Callers :
          /\ Responded(r) =>
               /\ \A i \in DOMAIN h[r].task : h[r].task[i].st = "done"
               /\ h[r].wg = 0 /\ h[r].mu = 0
               /\ h[r].body = h[r].result
               /\ \A i \in GoodScrapers(r) :
                    /\ ScraperName(i) \in DOMAIN h[r].body
                    /\ h[r].body[ScraperName(i)]
                         = h[r].task[LastWriter(r, ScraperName(i))].out
                    /\ LastWriter(r, ScraperName(i)) \in GoodScrapers(r)
          /\ h[r].pc # "none" =>
               \A i \in DOMAIN h[r].task : Writing(r, i) <=> h[r].mu = i)
  /\ [][ \A r \in Callers :
           (h[r].pc # "none" /\ h'[r].result # h[r].result) =>
             \/ /\ h[r].pc = "inSystem"
                /\ \A i \in DOMAIN h[r].task : h[r].task[i].st = "off"
             \/ /\ h[r].pc = "spawn"
                /\ h[r].mu \in DOMAIN h[r].task
                /\ Writing(r, h[r].mu)
                /\ h'[r].task[h[r].mu].st = "done" ]_vars

\* a response whose two scrapers both succeeded, the second one writing
\* before the first
C29_Witness ==
  \E r \in Callers :
    /\ Responded(r)
    /\ GoodScrapers(r) = {1, 2}
    /\ h[r].merged = << 2, 1 >>
    /\ ScraperName(1) # ScraperName(2)

-----------------------------------------------------------------------------
\* The response under the interleavings of the scraper tasks

\* the last scraper of the configuration, among the successful ones of a
\* request, that has the name
LastNamed(r, name) ==
  LET at == { i \in GoodScrapers(r) : ScraperName(i) = name }
  IN  CHOOSE i \in at : \A j \in at : j <= i

\* the result mapping of the interleaving in which the scrapers of a request
\* write in the order of the configuration, computed from the configuration,
\* the sources' contents and the system snapshot
InOrder(r) ==
  [ name \in (IF cfg.enabled THEN {SystemName} ELSE {})
               \cup { ScraperName(i) : i \in GoodScrapers(r) } |->
      IF \E i \in GoodScrapers(r) : ScraperName(i) = name
      THEN CollectScraper(cfg.scrapers[LastNamed(r, name)],
                          h[r].task[LastNamed(r, name)].src).metrics
      ELSE call[r].ret.m ]

\* C30: the response of a request is the one of the interleaving in which
\* the scrapers write in the order of the configuration, whatever the
\* interleaving was: it is determined by the configuration, the sources'
\* contents and the system snapshot.
C30_Claim ==
  \A r \in Callers : Responded(r) => h[r].body = InOrder(r)

\* the part of C30 that holds: the response is the same under every
\* interleaving when no two successful scrapers of the request share a name,
\* a scraper named like the system section included
C30_DistinctNames ==
  \A r \in Callers :
    ( /\ Responded(r)
      /\ \A i, j \in GoodScrapers(r) : ScraperName(i) = ScraperName(j) => i = j )
    => h[r].body = InOrder(r)

\* two successful scrapers of one name wrote in the order of the
\* configuration, and the response is the in-order one
C30_InOrderRun ==
  \E r \in Callers :
    /\ Responded(r)
    /\ GoodScrapers(r) = {1, 2}
    /\ ScraperName(1) = ScraperName(2)
    /\ h[r].merged = << 1, 2 >>
    /\ h[r].task[1].out # h[r].task[2].out
    /\ h[r].body = InOrder(r)

\* the same scrapers on the same sources wrote in the other order
C30_ReversedRun ==
  \E r \in Callers :
    /\ Responded(r)
    /\ GoodScrapers(r) = {1, 2}
    /\ ScraperName(1) = ScraperName(2)
    /\ h[r].merged = << 2, 1 >>
    /\ h[r].task[1].out # h[r].task[2].out
    /\ h[r].body # InOrder(r)

\* a successful scraper named like the system section, alone under the name
C30_SystemNamed ==
  \E r \in Callers :
    /\ Responded(r) /\ cfg.enabled
    /\ \E i \in GoodScrapers(r) : ScraperName(i) = SystemName
    /\ \A i, j \in GoodScrapers(r) : ScraperName(i) = ScraperName(j) => i = j
    /\ Len(h[r].merged) = 1

-----------------------------------------------------------------------------
\* Rates over a counter that fell

\* the counter a collection read for a *_per_sec key is lower than the
\* previous counter it computes the rate against
CounterFell(c, key) ==
  col[c].task[GroupOf(key)].rd[CounterField(key)] < col[c].prev[PrevField(key)]

\* C31: a *_per_sec value computed over a counter that is lower than the
\* previously recorded one is (current - previous) / elapsed, a negative
\* number.
C31_Claim ==
  \A c \in Callers :
    Collected(c) =>
      \A key \in RateKeys \cap DOMAIN col[c].metrics :
        CounterFell(c, key) =>
          /\ col[c].metrics[key] < 0
          /\ col[c].metrics[key] * col[c].timeDelta
               >= 100 * ( col[c].task[GroupOf(key)].rd[CounterField(key)]
                          - col[c].prev[PrevField(key)] ) - col[c].timeDelta

\* what the collector emits: the rate over the difference taken in uint64,
\* a positive number
C31_WrappedRate ==
  \A c \in Callers :
    Collected(c) =>
      \A key \in RateKeys \cap DOMAIN col[c].metrics :
        CounterFell(c, key) =>
          /\ col[c].metrics[key] > 0
          /\ col[c].metrics[key] =
               RatePerSec( WrapMod + col[c].task[GroupOf(key)].rd[CounterField(key)]
                             - col[c].prev[PrevField(key)], col[c].timeDelta )

\* a collection emitted a rate over a counter that fell
C31_Fell ==
  \E c \in Callers :
    /\ Collected(c)
    /\ \E key \in RateKeys \cap DOMAIN col[c].metrics : CounterFell(c, key)

-----------------------------------------------------------------------------
\* Expressions with a signed operand

\* C32 as stated: for "value * -2", "value + -2" and "value / -2" the result
\* of Calculate is not value combined with the negative operand.
C32_Original ==
  Result("Calculate") =>
    \A c \in {"*", "/", "+"} :
      h.args[2] = <<TValue, TOp(c), TNum(-2)>> => h.ret # Arith(c, h.args[1], -2)

\* C32 amended: for every value, "value * -2", "value / -2" and "value + -2"
\* give value combined with the negative operand; only "value - -2" is not
\* evaluated and gives value unchanged.
C32_SignedOperand ==
  Result("Calculate") =>
    /\ \A c \in {"*", "/", "+"} :
         h.args[2] = <<TValue, TOp(c), TNum(-2)>> => h.ret = Arith(c, h.args[1], -2)
    /\ h.args[2] = <<TValue, TOp("-"), TNum(-2)>> => h.ret = NumV(h.args[1])

\* Calculate(5, "value * -2") has returned -10
C32_Witness ==
  /\ Result("Calculate")
  /\ h.args = << 5, <<TValue, TOp("*"), TNum(-2)>> >>
  /\ h.ret = NumV(-10)

-----------------------------------------------------------------------------
\* Expressions with value on the right

\* C33 as stated: for every non-negative value, "100 - value" gives 0 and
\* "1 / value" gives 1, value op value.
C33_Original ==
  (Result("Calculate") /\ h.args[1] >= 0) =>
    /\ h.args[2] = <<TNum(100), TOp("-"), TValue>> => h.ret = NumV(0)
    /\ h.args[2] = <<TNum(1), TOp("/"), TValue>> => h.ret = NumV(1)

\* C33 amended: for every non-negative value and the operators / + -, the
\* text before the operator is ignored and "c op value" gives value op value:
\* 0 for "100 - value"; 1 for "1 / value" when value is positive, and the
\* quotient 0 / 0 when value is 0.
C33_ValueOpValue ==
  (Result("Calculate") /\ h.args[1] >= 0) =>
    LET v == h.args[1] IN
    /\ \A c \in {"/", "+", "-"} : \A n \in {1, 100} :
         h.args[2] = <<TNum(n), TOp(c), TValue>> => h.ret = Arith(c, v, v)
    /\ h.args[2] = <<TNum(100), TOp("-"), TValue>> => h.ret = NumV(0)
    /\ h.args[2] = <<TNum(1), TOp("/"), TValue>> =>
         h.ret = IF v > 0 THEN NumV(1) ELSE QuotV(0, 0)

\* Calculate(5, "100 - value") has returned 0
C33_Witness ==
  /\ Result("Calculate")
  /\ h.args = << 5, <<TNum(100), TOp("-"), TValue>> >>
  /\ h.ret = NumV(0)

-----------------------------------------------------------------------------
\* Samples of one name

\* the qualifying lines of a text that have the name
LinesNamed(text, name) ==
  { i \in DOMAIN text : Qualifies(text[i]) /\ NameOf(text[i]) = name }

\* C34: when several parseable lines of a Prometheus text have the same
\* bare name, the result has exactly one entry for the name, with the value
\* of the last of them.
C34_LastSample ==
  Result("ParsePrometheus") =>
    LET text == h.args[1].text IN
    \A i \in DOMAIN text :
      Qualifies(text[i]) =>
        LET at   == LinesNamed(text, NameOf(text[i]))
            last == CHOOSE j \in at : \A k \in at : k <= j
        IN  /\ NameOf(text[i]) \in DOMAIN h.ret.m
            /\ h.ret.m[NameOf(text[i])] = NumberOf(text[last])
            /\ Cardinality({ k \in DOMAIN h.ret.m : k = NameOf(text[i]) }) = 1

\* the same metric with a label set and, after another sample, without
\* one: one entry for it, with the value of the later line
C34_Witness ==
  /\ Result("ParsePrometheus")
  /\ h.args[1].text = << PromSamples.labelled, PromSamples.stamped, PromSamples.plain >>
  /\ h.ret = ParseOk(("mem" :> NumV(4)) @@ ("bar" :> NumV(7)))

-----------------------------------------------------------------------------
\* Patterns that do not compile

\* the raw-format scrapers of the configuration whose pattern is not a
\* regular expression
BadPatternScrapers ==
  { i \in DOMAIN cfg.scrapers :
      cfg.scrapers[i].format = "raw" /\ ~ Compiles(cfg.scrapers[i].pattern) }

\* the server has taken a request
Serving == \E r \in Callers : h[r].pc \notin {"none", "idle"}

\* C35: a configuration with a raw-format scraper whose pattern does not
\* compile is rejected at start-up: no request is served under it, and no
\* scraper finds the pattern invalid while it runs during a request.
C35_Claim ==
  /\ Serving => BadPatternScrapers = {}
  /\ \A r \in Callers :
       h[r].pc # "none" =>
         \A i \in BadPatternScrapers : h[r].task[i].err # "parse"

\* what the server does: it starts under such a configuration, the scraper
\* fails with a parse error each time its source was read, and the request
\* is answered without its entry
C35_FailsPerRequest ==
  \A r \in Callers :
    h[r].pc # "none" =>
      \A i \in BadPatternScrapers :
        /\ h[r].task[i].st = "done" =>
             h[r].task[i].err = IF h[r].task[i].src.err THEN "fetch" ELSE "parse"
        /\ Responded(r) => (h[r].task[i].st = "done" /\ i \in h[r].errors)

\* a request answered under a configuration with a pattern that does not
\* compile
C35_Served ==
  \E r \in Callers :
    /\ Responded(r)
    /\ BadPatternScrapers # {}
    /\ \E i \in BadPatternScrapers : h[r].task[i].err = "parse"

-----------------------------------------------------------------------------
\* Rounding

\* val rounded half up to the precision: the largest multiple of 1 / ratio
\* that is at most val plus half a unit
HalfUp(val, precision) ==
  QuotV((val * Ratio(precision) + 500) \div 1000, Ratio(precision))

\* C36: utils.Round(v, 2) is v rounded half up to 2 decimal places, for
\* negative values too.
C36_Claim ==
  (Result("Round") /\ h.args[2] = 2) => h.ret = HalfUp(h.args[1], 2)

\* the part of C36 that holds: a value that is not negative and whose
\* hundredths an int can hold is rounded half up
C36_NonNegative ==
  ( /\ Result("Round")
    /\ h.args[1] >= 0
    /\ HalfUp(h.args[1], h.args[2]).n <= MaxInt )
  => h.ret = HalfUp(h.args[1], h.args[2])

\* Round(-0.014, 2) has returned 0 where half up gives -0.01
C36_Negative ==
  /\ Result("Round")
  /\ h.args = << -14, 2 >>
  /\ h.ret = QuotV(0, 100)
  /\ HalfUp(-14, 2) = QuotV(-1, 100)

\* a positive value beyond the ints has come back negative
C36_Overflow ==
  /\ Result("Round")
  /\ h.args[1] > 0 /\ h.args[2] = 2
  /\ h.ret.n < 0
====
